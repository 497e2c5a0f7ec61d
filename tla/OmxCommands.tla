----------------------------- MODULE OmxCommands -----------------------------
(***************************************************************************)
(* Commands of an OpenMAX IL component built on a MMAL component           *)
(* (mmalomx_commands.c, mmalomx_buffer.c, mmalomx_core.c).  A command      *)
(* leaves actions at the ports; whoever calls actions_check carries them   *)
(* out: the component's thread, woken by a semaphore, and the client's     *)
(* own thread in the calls that allocate and free buffers.  The ports'     *)
(* lock is not held while a port is flushed, disabled or enabled.          *)
(* The proofs at the end are for one port with any number of buffers.      *)
(***************************************************************************)
EXTENDS Integers, Sequences, FiniteSets, FiniteSetTheorems,
        SequenceTheorems, TLAPS

CONSTANTS
  OmxPorts,      \* number of ports
  BufferNum,     \* buffers of a port
  MaxCmdBuffers, \* MAX_CMD_BUFFERS
  Unanswered,    \* bound: commands the client leaves unanswered
  MaxCommands,   \* bound: commands sent
  Targets,       \* the states the client asks for
  MaxFailures    \* bound: calls into MMAL that fail

Ports == 1..OmxPorts
Threads == {"cmd", "client"}

\* state_transition_table: what each transition asks of the enabled ports.
Transitions ==
  {<<"Loaded", "Idle">>, <<"Loaded", "WaitForResources">>, <<"WaitForResources", "Loaded">>,
   <<"WaitForResources", "Idle">>, <<"Idle", "Loaded">>, <<"Idle", "Executing">>,
   <<"Idle", "Pause">>, <<"Executing", "Idle">>, <<"Executing", "Pause">>,
   <<"Pause", "Idle">>, <<"Pause", "Executing">>}
States == {tr[1] : tr \in Transitions}
Unloaded == {"Loaded", "WaitForResources"}
NoTransition == <<"none", "none">>

\* Mutant: Idle does not wait for the buffers.
TransitionActionsNoWait(tr) ==
  CASE tr[2] = "Idle" /\ tr[1] \in {"Loaded", "WaitForResources"} -> {"check allocated", "enable"}
    [] tr = <<"Idle", "Loaded">> -> {"check deallocated", "disable", "flush", "check flushed"}
    [] tr = <<"Executing", "Idle">> -> {"flush"}
    [] OTHER -> {}

TransitionActions(tr) ==
  CASE tr[2] = "Idle" /\ tr[1] \in {"Loaded", "WaitForResources"} -> {"check allocated", "enable"}
    [] tr = <<"Idle", "Loaded">> -> {"check deallocated", "disable", "flush", "check flushed"}
    [] tr = <<"Executing", "Idle">> -> {"flush", "check flushed"}
    [] OTHER -> {}

Notify == [Flush |-> "notify flush", Enable |-> "notify enable", Disable |-> "notify disable"]
PortActions ==
  [Flush |-> {"flush", "check flushed"}, Enable |-> {"check allocated", "enable"},
   Disable |-> {"disable", "check deallocated", "flush", "check flushed"}]
Pending == [flush |-> "pending flush", disable |-> "pending disable", enable |-> "pending enable"]

Commands == [kind : {"State"}, to : Targets, ports : {{}}]
       \cup [kind : DOMAIN Notify, to : {"-"}, ports : {Ports} \cup {{p} : p \in Ports}]
Answers == {<<"State", 0>>} \cup {<<k, p>> : k \in DOMAIN Notify, p \in Ports}
Owes(c) == IF c.kind = "State" THEN {<<"State", 0>>} ELSE {<<c.kind, p>> : p \in c.ports}

VARIABLES
  state, transition,
  queue, sema,          \* cmd_queue, cmd_sema
  enabled, actions, buffers, populated, transit, \* of each port; transit: buffers_in_transit
  on, pool,             \* MMAL's port: is it enabled, how many headers are in its pool
  held, flushed,        \* buffers the MMAL component has; must it give them back?
  own,                  \* buffers the client holds
  stack,                \* of each thread, the innermost call first
  ret,                  \* the thread that gives back a buffer
  owed, told, shorted,  \* answers to come; the last one; did a send fail?
  commands, failures

portVars == <<enabled, actions, buffers, populated, transit>>
mmalVars == <<on, pool, held, flushed>>
seenVars == <<owed, told, shorted>>
ovars == <<state, transition, queue, sema, portVars, mmalVars, own, stack, ret, seenVars,
           commands, failures>>

Frame(at, p, todo, did) == [at |-> at, port |-> p, todo |-> todo, did |-> did]
Check == Frame("take", 1, {}, {})
Top(t) == Head(stack[t])
At(t, place) == stack[t] # <<>> /\ Top(t).at = place
Replace(t, frames) == stack' = [stack EXCEPT ![t] = frames \o Tail(@)]
Idling == [at |-> "idle", port |-> 0, signal |-> FALSE]

\* OMX_GetHandle; a component may have come to Idle or Executing before.
OInit ==
  /\ state \in {"Loaded", "Idle", "Executing"} /\ transition = NoTransition
  /\ queue = <<>> /\ sema = 0
  /\ enabled = [p \in Ports |-> TRUE] /\ actions = [p \in Ports |-> {}]
  /\ buffers = [p \in Ports |-> IF state = "Loaded" THEN 0 ELSE BufferNum]
  /\ populated = [p \in Ports |-> state # "Loaded"]
  /\ on = [p \in Ports |-> state # "Loaded"] /\ pool = buffers /\ own = buffers
  /\ transit = [p \in Ports |-> 0] /\ held = [p \in Ports |-> 0]
  /\ flushed = [p \in Ports |-> FALSE]
  /\ stack = [t \in Threads |-> <<>>] /\ ret = Idling
  /\ owed = [a \in Answers |-> 0] /\ told = [ok |-> TRUE, from |-> "-"]
  /\ shorted = FALSE /\ commands = 0 /\ failures = 0

Answer(a, ok, from) ==
  /\ owed' = [owed EXCEPT ![a] = IF @ > 0 THEN @ - 1 ELSE 0]
  /\ told' = [ok |-> ok, from |-> from]
  /\ UNCHANGED shorted

-----------------------------------------------------------------------------
(* mmalomx_commands_actions_check                                          *)

\* check_port_actions, with the ports' lock: actions that can be carried out
\* are marked as pending.
CanRun(p) ==
  {a \in DOMAIN Pending \cap actions[p] :
     /\ a = "disable" => transit[p] = 0 \/ "check flushed" \notin actions[p]
     /\ a = "enable" => buffers[p] > 0}

TakeActions(t) ==
  LET p == Top(t).port IN
  /\ At(t, "take") /\ actions[p] # {}
  /\ actions' = [actions EXCEPT ![p] = (@ \ CanRun(p)) \cup {Pending[a] : a \in CanRun(p)}]
  /\ Replace(t, <<Frame("run", p, CanRun(p), {Pending[a] : a \in CanRun(p)})>>)
  /\ UNCHANGED <<state, transition, queue, sema, enabled, buffers, populated, transit, mmalVars,
                 own, ret, seenVars, commands, failures>>

\* After the last port comes the component's own part.
NextPort(t) ==
  LET p == Top(t).port IN
  IF p = OmxPorts THEN Replace(t, <<Frame("left", p, {}, {})>>)
                  ELSE Replace(t, <<Frame("take", p + 1, {}, {})>>)

NoActions(t) ==
  /\ At(t, "take") /\ actions[Top(t).port] = {}
  /\ NextPort(t)
  /\ UNCHANGED <<state, transition, queue, sema, portVars, mmalVars, own, ret, seenVars,
                 commands, failures>>

\* The actions, without a lock: mmal_port_flush,
RunFlush(t) ==
  LET p == Top(t).port IN
  /\ At(t, "run") /\ "flush" \in Top(t).todo
  /\ flushed' = [flushed EXCEPT ![p] = held[p] > 0]
  /\ stack' = [stack EXCEPT ![t][1].todo = @ \ {"flush"}]
  /\ UNCHANGED <<state, transition, queue, sema, portVars, on, pool, held, own, ret, seenVars,
                 commands, failures>>

\* mmal_port_disable, which waits for the headers in transit,
RunDisable(t) ==
  LET p == Top(t).port IN
  /\ At(t, "run") /\ "disable" \in Top(t).todo /\ "flush" \notin Top(t).todo
  /\ held[p] = 0
  /\ on' = [on EXCEPT ![p] = FALSE]
  /\ stack' = [stack EXCEPT ![t][1].todo = @ \ {"disable"}]
  /\ UNCHANGED <<state, transition, queue, sema, portVars, pool, held, flushed, own, ret,
                 seenVars, commands, failures>>

\* mmal_port_enable and mmal_pool_resize; should that fail, an error is
\* reported and the command completes all the same.
RunEnable(t) ==
  LET p == Top(t).port IN
  /\ At(t, "run") /\ "enable" \in Top(t).todo
  /\ \/ /\ on' = [on EXCEPT ![p] = TRUE] /\ pool' = [pool EXCEPT ![p] = BufferNum]
        /\ UNCHANGED failures
     \/ /\ failures < MaxFailures /\ failures' = failures + 1 /\ UNCHANGED <<on, pool>>
  /\ stack' = [stack EXCEPT ![t][1].todo = @ \ {"enable"}]
  /\ UNCHANGED <<state, transition, queue, sema, portVars, held, flushed, own, ret, seenVars,
                 commands>>

\* With the lock again: what was carried out or has come true goes away, and
\* who finds nothing but a notification left gives it.
Remains(p, done) ==
  actions[p] \ (done \cup {a \in {"check allocated"} : populated[p]}
                     \cup {a \in {"check deallocated"} : buffers[p] = 0}
                     \cup {a \in {"check flushed"} : transit[p] = 0})

Settle(t) ==
  LET p == Top(t).port
      left == Remains(p, Top(t).did)
  IN
  /\ At(t, "run") /\ Top(t).todo = {}
  /\ \/ \E k \in DOMAIN Notify :
          /\ left = {Notify[k]}
          /\ actions' = [actions EXCEPT ![p] = {}]
          /\ Answer(<<k, p>>, TRUE, state)
     \/ /\ \A k \in DOMAIN Notify : left # {Notify[k]}
        /\ actions' = [actions EXCEPT ![p] = left] /\ UNCHANGED seenVars
  /\ NextPort(t)
  /\ UNCHANGED <<state, transition, queue, sema, enabled, buffers, populated, transit,
                 mmalVars, own, ret, commands, failures>>

\* Mutant: the next command is taken whatever is left.
LeftAlways(t) ==
  /\ At(t, "left")
  /\ IF transition # NoTransition /\ \A p \in Ports : actions[p] = {}
     THEN /\ state' = transition[2] /\ transition' = NoTransition
          /\ Replace(t, <<Frame("notify", 0, {}, {state})>>)
     ELSE Replace(t, <<Frame("next", 0, {}, {})>>) /\ UNCHANGED <<state, transition>>
  /\ UNCHANGED <<queue, sema, portVars, mmalVars, own, ret, seenVars, commands, failures>>

\* With the component's lock: a transition is over when no port has actions.
Left(t) ==
  LET idle == \A p \in Ports : actions[p] = {} IN
  /\ At(t, "left")
  /\ IF idle /\ transition # NoTransition
     THEN /\ state' = transition[2] /\ transition' = NoTransition
          /\ Replace(t, <<Frame("notify", 0, {}, {state})>>)
     ELSE /\ IF idle THEN Replace(t, <<Frame("next", 0, {}, {})>>) ELSE Replace(t, <<>>)
          /\ UNCHANGED <<state, transition>>
  /\ UNCHANGED <<queue, sema, portVars, mmalVars, own, ret, seenVars, commands, failures>>

\* OMX_EventCmdComplete, after the lock.
NotifyState(t) ==
  /\ At(t, "notify")
  /\ Answer(<<"State", 0>>, TRUE, CHOOSE s \in Top(t).did : TRUE)
  /\ Replace(t, <<Frame("next", 0, {}, {})>>)
  /\ UNCHANGED <<state, transition, queue, sema, portVars, mmalVars, own, ret, commands,
                 failures>>

\* mmalomx_commands_actions_next; a command to all ports is given to one
\* after the other.
ActionsNext(t) ==
  /\ At(t, "next")
  /\ IF queue = <<>> THEN Replace(t, <<>>) /\ UNCHANGED queue
     ELSE LET c == Head(queue) IN
          /\ queue' = Tail(queue)
          /\ Replace(t, IF c.kind = "State" THEN <<Frame("state set", 0, {}, {c.to})>>
                                            ELSE <<Frame("ports", 0, c.ports, {c.kind})>>)
  /\ UNCHANGED <<state, transition, sema, portVars, mmalVars, own, ret, seenVars, commands,
                 failures>>

-----------------------------------------------------------------------------
(* The commands                                                            *)

Asked(t) == CHOOSE x \in Top(t).did : TRUE

\* mmalomx_command_state_set: into and out of Executing MMAL's component is
\* enabled or disabled first, which may fail.
StateSetFails(t) ==
  /\ At(t, "state set")
  /\ \/ <<state, Asked(t)>> \notin Transitions /\ UNCHANGED failures
     \/ /\ <<state, Asked(t)>> \in Transitions /\ "Executing" \in {state, Asked(t)}
        /\ failures < MaxFailures /\ failures' = failures + 1
  /\ Answer(<<"State", 0>>, FALSE, state)
  /\ Replace(t, <<>>)
  /\ UNCHANGED <<state, transition, queue, sema, portVars, mmalVars, own, ret, commands>>

StateSet(t) ==
  LET tr == <<state, Asked(t)>> IN
  /\ At(t, "state set") /\ tr \in Transitions
  /\ transition' = tr
  /\ actions' = [p \in Ports |-> IF enabled[p] THEN TransitionActions(tr) ELSE actions[p]]
  /\ Replace(t, <<Check>>)
  /\ UNCHANGED <<state, queue, sema, enabled, buffers, populated, transit, mmalVars, own, ret,
                 seenVars, commands, failures>>

\* mmalomx_command_port_flush, _enable and _disable for the first port of
\* those left; it returns here when the actions have been checked.
PortCommand(t) ==
  LET kind == Asked(t)
      p == CHOOSE q \in Top(t).todo : \A r \in Top(t).todo : q <= r
      rest == Frame("ports", 0, Top(t).todo \ {p}, {kind})
  IN /\ At(t, "ports") /\ Top(t).todo # {}
     /\ enabled' = [enabled EXCEPT ![p] = IF kind = "Flush" THEN @ ELSE kind = "Enable"]
     /\ IF kind # "Flush" /\ state \in Unloaded
        THEN Answer(<<kind, p>>, TRUE, state) /\ Replace(t, <<rest>>) /\ UNCHANGED actions
        ELSE /\ actions' = [actions EXCEPT ![p] = PortActions[kind] \cup {Notify[kind]}]
             /\ Replace(t, <<Check, rest>>) /\ UNCHANGED seenVars
     /\ UNCHANGED <<state, transition, queue, sema, buffers, populated, transit, mmalVars, own,
                    ret, commands, failures>>

PortsDone(t) ==
  /\ At(t, "ports") /\ Top(t).todo = {} /\ Replace(t, <<>>)
  /\ UNCHANGED <<state, transition, queue, sema, portVars, mmalVars, own, ret, seenVars,
                 commands, failures>>

\* mmalomx_cmd_thread_func
CmdThread ==
  /\ stack["cmd"] = <<>> /\ sema > 0
  /\ sema' = sema - 1 /\ stack' = [stack EXCEPT !["cmd"] = <<Check>>]
  /\ UNCHANGED <<state, transition, queue, portVars, mmalVars, own, ret, seenVars, commands,
                 failures>>

-----------------------------------------------------------------------------
(* The client                                                              *)

\* mmalomx_ComponentSendCommand; a command answered with an error still has
\* its answers to come.
SendCommand(c) ==
  /\ stack["client"] = <<>> /\ commands < MaxCommands /\ commands' = commands + 1
  /\ Len(queue) < MaxCmdBuffers
  /\ Cardinality({a \in Answers : owed[a] > 0}) < Unanswered
  /\ queue' = Append(queue, c)
  /\ owed' = [a \in Answers |-> owed[a] + IF a \in Owes(c) THEN 1 ELSE 0]
  /\ stack' = [stack EXCEPT !["client"] = <<Frame("post", 0, {}, {})>>]
  /\ UNCHANGED <<state, transition, sema, portVars, mmalVars, own, ret, told, shorted, failures>>

\* mmalomx_commands_actions_signal
Signal ==
  /\ At("client", "post")
  /\ sema' = sema + 1 /\ Replace("client", <<>>)
  /\ UNCHANGED <<state, transition, queue, portVars, mmalVars, own, ret, seenVars, commands,
                 failures>>

\* UseBuffer, AllocateBuffer and FreeBuffer check the actions first; a client
\* that knows the rules calls them while the component asks for it.
CallBuffers(what, p) ==
  /\ stack["client"] = <<>>
  /\ IF what = "allocate" THEN "check allocated" \in actions[p] /\ buffers[p] < BufferNum
                          ELSE "check deallocated" \in actions[p] /\ own[p] > 0
  /\ stack' = [stack EXCEPT !["client"] = <<Check, Frame(what, p, {}, {})>>]
  /\ UNCHANGED <<state, transition, queue, sema, portVars, mmalVars, own, ret, seenVars,
                 commands, failures>>

\* AllocateBuffer fails if the port no longer asks for buffers, or for memory.
Allocate ==
  LET p == Top("client").port IN
  /\ At("client", "allocate") /\ "check allocated" \in actions[p] /\ ~populated[p]
  /\ buffers' = [buffers EXCEPT ![p] = @ + 1] /\ own' = [own EXCEPT ![p] = @ + 1]
  /\ populated' = [populated EXCEPT ![p] = buffers[p] + 1 = BufferNum]
  /\ Replace("client", IF buffers[p] + 1 = BufferNum THEN <<Frame("post", 0, {}, {})>> ELSE <<>>)
  /\ UNCHANGED <<state, transition, queue, sema, enabled, actions, transit, mmalVars, ret,
                 seenVars, commands, failures>>

AllocateFails ==
  LET p == Top("client").port IN
  /\ At("client", "allocate")
  /\ \/ ("check allocated" \notin actions[p] \/ populated[p]) /\ UNCHANGED failures
     \/ failures < MaxFailures /\ failures' = failures + 1
  /\ Replace("client", <<>>)
  /\ UNCHANGED <<state, transition, queue, sema, portVars, mmalVars, own, ret, seenVars, commands>>

\* FreeBuffer signals when the last buffer is gone.
FreeBuffer ==
  LET p == Top("client").port IN
  /\ At("client", "free")
  /\ buffers' = [buffers EXCEPT ![p] = @ - 1] /\ own' = [own EXCEPT ![p] = @ - 1]
  /\ populated' = [populated EXCEPT ![p] = FALSE]
  /\ Replace("client", IF buffers[p] = 1 THEN <<Frame("post", 0, {}, {})>> ELSE <<>>)
  /\ UNCHANGED <<state, transition, queue, sema, enabled, actions, transit, mmalVars, ret,
                 seenVars, commands, failures>>

\* mmalomx_buffer_send, with the ports' lock, by a client with no command
\* unanswered.
SendBuffer(p) ==
  /\ stack["client"] = <<>> /\ own[p] > 0 /\ \A a \in Answers : owed[a] = 0
  /\ state \in {"Pause", "Executing"} /\ enabled[p]
  /\ IF on[p] /\ pool[p] > 0
     THEN /\ pool' = [pool EXCEPT ![p] = @ - 1] /\ transit' = [transit EXCEPT ![p] = @ + 1]
          /\ held' = [held EXCEPT ![p] = @ + 1] /\ own' = [own EXCEPT ![p] = @ - 1]
          /\ UNCHANGED shorted
     ELSE shorted' = TRUE /\ UNCHANGED <<pool, transit, held, own>>
  /\ UNCHANGED <<state, transition, queue, sema, enabled, actions, buffers, populated, on,
                 flushed, stack, ret, owed, told, commands, failures>>

-----------------------------------------------------------------------------
(* mmalomx_buffer_return, in a thread of MMAL's                            *)

\* The header is released and the client called back,
BufferDone(p) ==
  /\ ret = Idling /\ held[p] > 0 /\ (state = "Executing" \/ flushed[p])
  /\ pool' = [pool EXCEPT ![p] = @ + 1] /\ own' = [own EXCEPT ![p] = @ + 1]
  /\ held' = [held EXCEPT ![p] = @ - 1]
  /\ flushed' = [flushed EXCEPT ![p] = @ /\ held[p] > 1]
  /\ ret' = [at |-> "count", port |-> p, signal |-> "check flushed" \in actions[p]]
  /\ UNCHANGED <<state, transition, queue, sema, portVars, on, stack, seenVars, commands, failures>>

\* Mutant: whether a flush waits is seen before the client is called back.
CountReturnedEarly ==
  /\ ret.at = "count"
  /\ transit' = [transit EXCEPT ![ret.port] = @ - 1]
  /\ ret' = IF ret.signal THEN [ret EXCEPT !.at = "signal"] ELSE Idling
  /\ UNCHANGED <<state, transition, queue, sema, enabled, actions, buffers, populated, mmalVars,
                 own, stack, seenVars, commands, failures>>

\* then the buffer counted with the lock,
CountReturned ==
  /\ ret.at = "count"
  /\ transit' = [transit EXCEPT ![ret.port] = @ - 1]
  /\ ret' = IF "check flushed" \in actions[ret.port] THEN [ret EXCEPT !.at = "signal"] ELSE Idling
  /\ UNCHANGED <<state, transition, queue, sema, enabled, actions, buffers, populated, mmalVars,
                 own, stack, seenVars, commands, failures>>

\* and whoever waits for a flush woken.
SignalReturned ==
  /\ ret.at = "signal" /\ ret' = Idling /\ sema' = sema + 1
  /\ UNCHANGED <<state, transition, queue, portVars, mmalVars, own, stack, seenVars, commands,
                 failures>>

-----------------------------------------------------------------------------
Checks(t) == \/ TakeActions(t) \/ NoActions(t) \/ RunFlush(t) \/ RunDisable(t) \/ RunEnable(t)
             \/ Settle(t) \/ Left(t) \/ NotifyState(t) \/ ActionsNext(t)
             \/ StateSetFails(t) \/ StateSet(t) \/ PortCommand(t) \/ PortsDone(t)
ClientRuns == Signal \/ Allocate \/ AllocateFails \/ FreeBuffer
Returns == CountReturned \/ SignalReturned \/ \E p \in Ports : flushed[p] /\ BufferDone(p)

ONext ==
  \/ \E t \in Threads : Checks(t)
  \/ CmdThread \/ ClientRuns \/ CountReturned \/ SignalReturned
  \/ \E c \in Commands : SendCommand(c)
  \/ \E p \in Ports : \/ SendBuffer(p) \/ BufferDone(p)
                      \/ \E what \in {"allocate", "free"} : CallBuffers(what, p)

\* Threads run on, buffers that are flushed come back, and the client gives
\* or takes away the buffers it is asked for.
OFair ==
  /\ \A t \in Threads : WF_ovars(Checks(t))
  /\ WF_ovars(CmdThread) /\ WF_ovars(ClientRuns) /\ WF_ovars(Returns)
  /\ \A p \in Ports, what \in {"allocate", "free"} : WF_ovars(CallBuffers(what, p))
OSpec == OInit /\ [][ONext]_ovars
OFairSpec == OSpec /\ OFair

-----------------------------------------------------------------------------
(* Properties                                                              *)

TypeOK ==
  /\ state \in States /\ transition \in Transitions \cup {NoTransition}
  /\ queue \in Seq(Commands) /\ Len(queue) <= MaxCmdBuffers /\ sema \in Nat
  /\ \A p \in Ports : /\ buffers[p] \in 0..BufferNum /\ transit[p] \in 0..(BufferNum + 1)
                      /\ held[p] <= transit[p] /\ own[p] + held[p] = buffers[p]
  /\ owed \in [Answers -> Nat]

CompleteFor(kind, p) ==
  CASE kind = "Flush" -> transit'[p] = 0
    [] kind = "Enable" -> told'.from \in Unloaded \/ (populated'[p] /\ on'[p])
    [] kind = "Disable" -> told'.from \in Unloaded \/ (buffers'[p] = 0 /\ ~on'[p])
    [] kind = "State" -> enabled[p] =>
         /\ state = "Loaded" /\ told'.from = "Idle" => buffers[p] = 0 /\ ~on[p]
         /\ state = "Idle" /\ told'.from = "Loaded" => populated[p] /\ on[p]
         /\ state = "Idle" /\ told'.from = "Executing" => transit[p] = 0

\* A completion is reported when what it reports is so, whichever threads
\* carried out the actions; unless enabling a port failed, where the code
\* completes the command after the error.
CompleteWhenDone ==
  [][\A a \in Answers : owed'[a] < owed[a] /\ told'.ok /\ failures = 0 =>
       \A p \in IF a[2] = 0 THEN Ports ELSE {a[2]} : CompleteFor(a[1], p)]_ovars

\* A buffer sent with no command unanswered finds MMAL's port enabled and a
\* header for it.
NeverShort == failures = 0 => ~shorted

\* One command at a time: the assertion of state_set, that no transition is
\* under way, holds.
OneTransition ==
  \A t \in Threads : At(t, "state set") => transition = NoTransition

\* Every command is answered.
CommandsAnswered == \A a \in Answers : []<>(owed[a] = 0)

-----------------------------------------------------------------------------
(* OmxCommands: one command at a time, and what a command waits for.         *)

OmxAssumption == OmxPorts = 1 /\ BufferNum \in Nat

CheckStates == {"take", "run", "left"}
Pendings == {"pending flush", "pending disable", "pending enable"}
Nowhere == Frame("idle", 0, {}, {})

\* The innermost call of a thread, and the call the client made.
View(t) == IF stack[t] = <<>> THEN Nowhere ELSE Head(stack[t])
Call == IF stack["client"] = <<>> THEN "idle" ELSE stack["client"][Len(stack["client"])].at

Todo(t) == IF View(t).at = "run" THEN View(t).todo ELSE {}
Did(t) == IF View(t).at = "run" THEN View(t).did ELSE {}

\* The command thread has found nothing to do, and takes the next command.
Quiet == \/ View("cmd").at \in {"notify", "next", "state set"}
         \/ View("cmd").at = "ports" /\ View("cmd").todo # {}

\* What a command in progress does to the port.
Enabling == \/ "notify enable" \in actions[1]
            \/ enabled[1] /\ transition[2] = "Idle" /\ transition[1] \in Unloaded
Disabling == \/ "notify disable" \in actions[1]
             \/ enabled[1] /\ transition = <<"Idle", "Loaded">>
Flushing == \/ "notify flush" \in actions[1]
            \/ enabled[1] /\ transition = <<"Executing", "Idle">>
EnablePending == "enable" \in actions[1] \/ \E t \in Threads : "enable" \in Todo(t)
DisablePending == "disable" \in actions[1] \/ \E t \in Threads : "disable" \in Todo(t)

\* Answers that a command in progress owes.
Busy(a) ==
  \/ a[1] = "State" /\ (transition # NoTransition \/ View("cmd").at \in {"notify", "state set"})
  \/ a[1] \in DOMAIN Notify
     /\ \/ Notify[a[1]] \in actions[1]
        \/ View("cmd").at = "ports" /\ View("cmd").todo # {} /\ View("cmd").did = {a[1]}
Queued(a) == {i \in 1 .. Len(queue) : a \in Owes(queue[i])}

OmxTypes ==
  /\ state \in States /\ transition \in Transitions \cup {NoTransition}
  /\ transition # NoTransition => transition[1] = state
  /\ queue \in Seq(Commands) /\ owed \in [Answers -> Nat]
  /\ enabled \in [Ports -> BOOLEAN] /\ populated \in [Ports -> BOOLEAN] /\ on \in [Ports -> BOOLEAN]
  /\ actions = [p \in Ports |-> actions[p]]
  /\ buffers \in [Ports -> Nat] /\ transit \in [Ports -> Nat] /\ pool \in [Ports -> Nat]
  /\ held \in [Ports -> Nat] /\ own \in [Ports -> Nat]
  /\ ret \in [at : {"idle", "count", "signal"}, port : Nat, signal : BOOLEAN]
  /\ ret.at # "idle" => ret.port = 1
  /\ failures \in Nat /\ shorted \in BOOLEAN

CmdFrame(f) ==
  /\ f.at \in CheckStates \cup {"idle", "notify", "next", "state set", "ports"}
  /\ f.at \in CheckStates => f.port = 1
  /\ f.at = "ports" => f.todo \subseteq Ports /\ \E k \in DOMAIN Notify : f.did = {k}
  /\ f.at \in {"notify", "state set"} => \E s \in Targets \cup States : f.did = {s}
RestFrame(f) == f.at = "ports" /\ f.todo = {} /\ \E k \in DOMAIN Notify : f.did = {k}

CmdShape ==
  /\ CmdFrame(View("cmd"))
  /\ \A i \in 2 .. Len(stack["cmd"]) : RestFrame(stack["cmd"][i])

ClientShape ==
  \/ stack["client"] = <<>>
  \/ /\ Len(stack["client"]) = 1
     /\ stack["client"][1].at \in {"post", "allocate", "free"}
     /\ stack["client"][1].at # "post" => stack["client"][1].port = 1
  \/ /\ Len(stack["client"]) = 2
     /\ stack["client"][1].at \in CheckStates /\ stack["client"][1].port = 1
     /\ stack["client"][2].at \in {"allocate", "free"} /\ stack["client"][2].port = 1

RunFrames == \A t \in Threads : LET v == View(t) IN v.at = "run" => v = Frame("run", 1, v.todo, v.did)
Stacks == (\E S : stack \in [Threads -> Seq(S)]) /\ CmdShape /\ ClientShape /\ RunFrames

ClientAsked ==
  /\ Call = "allocate" => "check allocated" \in actions[1] /\ ~populated[1] /\ buffers[1] < BufferNum
  /\ Call = "free" => "check deallocated" \in actions[1] /\ buffers[1] > 0 /\ own[1] > 0

QuietIdle == Quiet => actions[1] = {} /\ transition = NoTransition

RunsMarked ==
  /\ \A t \in Threads : Todo(t) \subseteq DOMAIN Pending /\ Did(t) \subseteq actions[1] \cap Pendings
  /\ \A t \in Threads : \A a \in Todo(t) : Pending[a] \in Did(t)
  /\ Did("cmd") \cap Did("client") = {}
  /\ \A a \in DOMAIN Pending : ~(a \in actions[1] /\ Pending[a] \in actions[1])

InProgress ==
  /\ transition # NoTransition => \A k \in DOMAIN Notify : Notify[k] \notin actions[1]
  /\ Enabling \/ Disabling \/ Flushing \/ actions[1] = {}
  /\ Enabling =>
       /\ actions[1] \subseteq {"check allocated", "enable", "pending enable", "notify enable"}
       /\ "check allocated" \in actions[1] \/ populated[1]
       /\ failures = 0 => on[1] \/ EnablePending
  /\ Disabling =>
       /\ actions[1] \subseteq {"check deallocated", "disable", "pending disable", "flush",
                                "pending flush", "check flushed", "notify disable"}
       /\ "check deallocated" \in actions[1] \/ buffers[1] = 0
       /\ ~on[1] \/ DisablePending
  /\ Flushing =>
       /\ actions[1] \subseteq {"flush", "pending flush", "check flushed", "notify flush"}
       /\ "check flushed" \in actions[1] \/ transit[1] = 0
  /\ "notify disable" \in actions[1] => ~enabled[1]

EnabledOn ==
  failures = 0 /\ enabled[1] /\ state \notin Unloaded /\ transition # <<"Idle", "Loaded">>
    => on[1] \/ EnablePending

NotifyDone ==
  View("cmd").at = "notify" /\ enabled[1] =>
    /\ state = "Loaded" /\ View("cmd").did = {"Idle"} => buffers[1] = 0 /\ ~on[1]
    /\ state = "Idle" /\ View("cmd").did = {"Loaded"} => populated[1] /\ (failures = 0 => on[1])
    /\ state = "Idle" /\ View("cmd").did = {"Executing"} => transit[1] = 0

Headers ==
  /\ own[1] + held[1] = buffers[1] /\ buffers[1] <= BufferNum
  /\ populated[1] => buffers[1] = BufferNum
  /\ on[1] => pool[1] + held[1] >= BufferNum
  /\ transit[1] = held[1] + (IF ret.at = "count" THEN 1 ELSE 0)

OwedLeft == \A a \in Answers : owed[a] >= Cardinality(Queued(a)) + (IF Busy(a) THEN 1 ELSE 0)

OmxInv ==
  /\ OmxTypes /\ Stacks /\ ClientAsked /\ QuietIdle /\ RunsMarked
  /\ InProgress /\ EnabledOn /\ NotifyDone /\ Headers /\ OwedLeft /\ NeverShort

LEMMA Longer ==
  ASSUME NEW S, NEW s \in Seq(S), NEW x \in S
  PROVE  /\ Append(s, x) \in Seq(S) /\ Len(Append(s, x)) = Len(s) + 1 /\ Len(s) \in Nat
         /\ DOMAIN s = 1 .. Len(s) /\ DOMAIN Append(s, x) = 1 .. Len(s) + 1
         /\ \A k \in 1 .. Len(s) : Append(s, x)[k] = s[k]
         /\ Append(s, x)[Len(s) + 1] = x
OBVIOUS

LEMMA Shorter ==
  ASSUME NEW S, NEW s \in Seq(S), s # <<>>
  PROVE  /\ Tail(s) \in Seq(S) /\ Len(Tail(s)) = Len(s) - 1 /\ Len(s) \in Nat \ {0}
         /\ Head(s) = s[1] /\ Head(s) \in S /\ 1 \in 1 .. Len(s)
         /\ \A k \in 1 .. Len(Tail(s)) : Tail(s)[k] = s[k + 1] /\ k + 1 \in 1 .. Len(s)
OBVIOUS

\* The stacks after a call, a return and a step of the innermost call.
LEMMA StackChanges ==
  ASSUME NEW S, stack \in [Threads -> Seq(S)], NEW t \in Threads, NEW s,
         stack' = [stack EXCEPT ![t] = s], \E T : s \in Seq(T)
  PROVE  /\ \E T : stack' \in [Threads -> Seq(T)]
         /\ stack'[t] = s /\ \A u \in Threads : u # t => stack'[u] = stack[u]
<1>1. PICK T : s \in Seq(T)
  OBVIOUS
<1> DEFINE U == S \cup T
<1>2. Seq(S) \subseteq Seq(U) /\ Seq(T) \subseteq Seq(U)
  OBVIOUS
<1> HIDE DEF U
<1>3. stack' \in [Threads -> Seq(U)]
  BY <1>1, <1>2
<1> QED
  BY <1>3

LEMMA Turned ==
  ASSUME NEW S, NEW q \in Seq(S), q # <<>>, NEW f
  PROVE  LET r == <<f>> \o Tail(q) IN
         /\ \E T : r \in Seq(T)
         /\ r # <<>> /\ Len(r) = Len(q) /\ Len(q) \in Nat \ {0} /\ Head(r) = f /\ r[1] = f
         /\ \A i \in 2 .. Len(q) : r[i] = q[i]
<1>1. Tail(q) \in Seq(S) /\ Len(Tail(q)) = Len(q) - 1 /\ Len(q) \in Nat \ {0}
      /\ \A k \in 1 .. Len(Tail(q)) : Tail(q)[k] = q[k + 1]
  BY Shorter
<1> DEFINE U == S \cup {f}
<1>2. Tail(q) \in Seq(U) /\ f \in U /\ <<f>> \in Seq(U)
  BY <1>1
<1> DEFINE w == Tail(q)
<1> HIDE DEF U, w
<1>3. /\ <<f>> \o w \in Seq(U) /\ Len(<<f>> \o w) = Len(w) + 1
      /\ \A i \in 1 .. Len(w) + 1 : (<<f>> \o w)[i] = IF i = 1 THEN f ELSE w[i - 1]
  BY <1>2 DEF w
<1>4. \A i \in 2 .. Len(q) : (<<f>> \o w)[i] = q[i]
  BY <1>1, <1>3 DEF w
<1>5. Head(<<f>> \o w) = f /\ <<f>> \o w # <<>>
  BY <1>1, <1>3 DEF w
<1> QED
  BY <1>1, <1>3, <1>4, <1>5 DEF w

OtherViews(t) == \A u \in Threads : u # t => View(u)' = View(u)

LEMMA ViewsKept ==
  ASSUME NEW t \in Threads, \A u \in Threads : u # t => stack'[u] = stack[u]
  PROVE  /\ OtherViews(t)
         /\ t = "cmd" => Call' = Call /\ (ClientShape => ClientShape')
         /\ t = "client" => (CmdShape => CmdShape')
<1>1. OtherViews(t)
  BY DEF OtherViews, View
<1>2. ASSUME t = "cmd" PROVE Call' = Call /\ (ClientShape => ClientShape')
  <2>1. stack'["client"] = stack["client"]
    BY <1>2 DEF Threads
  <2> QED
    BY <2>1 DEF Call, ClientShape
<1>3. ASSUME t = "client", CmdShape PROVE CmdShape'
  <2>1. stack'["cmd"] = stack["cmd"] /\ View("cmd")' = View("cmd")
    BY <1>1, <1>3 DEF Threads, OtherViews
  <2> QED
    BY <1>3, <2>1 DEF CmdShape, CmdFrame
<1> QED
  BY <1>1, <1>2, <1>3

\* A thread within the check of the actions goes on with it.
LEMMA CheckTurns ==
  ASSUME Stacks, NEW t \in Threads, View(t).at \in CheckStates, NEW f,
         f.at \in CheckStates, f.port = 1, f.at = "run" => f = Frame("run", 1, f.todo, f.did),
         stack' = [stack EXCEPT ![t] = <<f>> \o Tail(@)]
  PROVE  Stacks' /\ View(t)' = f /\ OtherViews(t) /\ Call' = Call
<1>1. PICK S : stack \in [Threads -> Seq(S)]
  BY DEF Stacks
<1>2. stack[t] \in Seq(S) /\ stack[t] # <<>>
  BY <1>1 DEF View, Nowhere, Frame, CheckStates
<1> DEFINE r == <<f>> \o Tail(stack[t])
<1>3. /\ \E T : r \in Seq(T)
      /\ r # <<>> /\ Len(r) = Len(stack[t]) /\ Len(stack[t]) \in Nat \ {0} /\ Head(r) = f
      /\ r[1] = f
      /\ \A i \in 2 .. Len(stack[t]) : r[i] = stack[t][i]
  BY <1>2, Turned
<1>4. stack' = [stack EXCEPT ![t] = r]
  BY <1>1
<1> HIDE DEF r
<1>5. /\ \E T : stack' \in [Threads -> Seq(T)]
      /\ stack'[t] = r /\ \A u \in Threads : u # t => stack'[u] = stack[u]
  BY <1>1, <1>3, <1>4, StackChanges
<1>6. View(t)' = f
  BY <1>3, <1>5 DEF View
<1>7. OtherViews(t)
  BY <1>5, ViewsKept
<1>10. RunFrames'
  BY <1>6, <1>7 DEF RunFrames, OtherViews, Stacks
<1>8. CASE t = "cmd"
  <2>1. Call' = Call /\ ClientShape'
    BY <1>5, <1>8, ViewsKept DEF Stacks
  <2>2. CmdFrame(f)
    BY DEF CmdFrame, CheckStates
  <2>3. CmdFrame(View("cmd"))'
    BY <1>6, <1>8, <2>2 DEF CmdFrame
  <2>4. ASSUME NEW i \in 2 .. Len(stack'["cmd"]) PROVE RestFrame(stack'["cmd"][i])
    <3>1. i \in 2 .. Len(stack["cmd"]) /\ stack'["cmd"][i] = stack["cmd"][i]
      BY <1>3, <1>5, <1>8
    <3> QED
      BY <3>1 DEF Stacks, CmdShape
  <2>5. CmdShape'
    BY <2>3, <2>4 DEF CmdShape, RestFrame
  <2> QED
    BY <1>5, <1>6, <1>7, <1>8, <1>10, <2>1, <2>5 DEF Stacks
<1>9. CASE t = "client"
  <2>1. CmdShape'
    BY <1>5, <1>9, ViewsKept DEF Stacks
  <2>2. View("client").at = stack["client"][1].at
    BY <1>2, <1>9 DEF View
  <2>3. /\ Len(stack["client"]) = 2
        /\ stack["client"][2].at \in {"allocate", "free"} /\ stack["client"][2].port = 1
    BY <1>2, <1>9, <2>2 DEF Stacks, ClientShape, CheckStates
  <2>4. Len(stack'["client"]) = 2 /\ stack'["client"][1] = f /\ stack'["client"][2] = stack["client"][2]
    BY <1>3, <1>5, <1>9, <2>3
  <2>5. ClientShape'
    BY <2>3, <2>4 DEF ClientShape
  <2>6. Call' = Call
    BY <1>2, <1>3, <1>5, <1>9, <2>3, <2>4 DEF Call
  <2> QED
    BY <1>5, <1>6, <1>7, <1>9, <1>10, <2>1, <2>5, <2>6 DEF Stacks
<1> QED
  BY <1>8, <1>9 DEF Threads

\* It has carried out one action.
LEMMA CheckDoes ==
  ASSUME Stacks, NEW t \in Threads, View(t).at = "run", NEW a,
         stack' = [stack EXCEPT ![t][1].todo = @ \ {a}]
  PROVE  /\ Stacks' /\ OtherViews(t) /\ Call' = Call
         /\ View(t)' = Frame("run", 1, View(t).todo \ {a}, View(t).did)
<1>1. PICK S : stack \in [Threads -> Seq(S)]
  BY DEF Stacks
<1>2. stack[t] \in Seq(S) /\ stack[t] # <<>> /\ View(t) = stack[t][1]
  BY <1>1 DEF View, Nowhere, Frame
<1>3. stack[t][1] = Frame("run", 1, View(t).todo, View(t).did)
  BY <1>2 DEF Stacks, RunFrames
<1> DEFINE f == Frame("run", 1, View(t).todo \ {a}, View(t).did)
<1>4. [stack[t][1] EXCEPT !.todo = @ \ {a}] = f
  <2> DEFINE r == stack[t][1]  d == View(t).todo  e == View(t).did
  <2>1. r = [at |-> "run", port |-> 1, todo |-> d, did |-> e]
    BY <1>3 DEF Frame
  <2> HIDE DEF d, e, r
  <2>2. [r EXCEPT !.todo = @ \ {a}] = [at |-> "run", port |-> 1, todo |-> d \ {a}, did |-> e]
    BY <2>1
  <2> QED
    BY <2>2 DEF Frame, d, e, r
<1>5. f.at = "run" /\ f.port = 1 /\ f = Frame("run", 1, f.todo, f.did)
  BY DEF Frame
<1> HIDE DEF f
<1>6. stack' = [stack EXCEPT ![t] = [@ EXCEPT ![1] = f]]
  BY <1>1, <1>4
<1> DEFINE q == stack[t]
<1>7. q \in Seq(S) /\ q # <<>>
  BY <1>2
<1> HIDE DEF q
<1>8. [q EXCEPT ![1] = f] = <<f>> \o Tail(q)
  <2>1. Tail(q) \in Seq(S) /\ Len(Tail(q)) = Len(q) - 1 /\ Len(q) \in Nat \ {0}
        /\ \A k \in 1 .. Len(Tail(q)) : Tail(q)[k] = q[k + 1]
    BY <1>7, Shorter
  <2> DEFINE U == S \cup {f}
  <2>2. q \in Seq(U) /\ Tail(q) \in Seq(U) /\ f \in U
    BY <1>7, <2>1
  <2> DEFINE w == Tail(q)  l == [q EXCEPT ![1] = f]  r == <<f>> \o w
  <2>3. l \in Seq(U) /\ Len(l) = Len(q) /\ \A i \in 1 .. Len(q) : l[i] = IF i = 1 THEN f ELSE q[i]
    BY <2>1, <2>2
  <2> HIDE DEF U, w, l
  <2>4. r \in Seq(U) /\ Len(r) = Len(w) + 1
        /\ \A i \in 1 .. Len(w) + 1 : r[i] = IF i = 1 THEN f ELSE w[i - 1]
    BY <2>2 DEF w
  <2>5. \A i \in 2 .. Len(q) : w[i - 1] = q[i]
    BY <2>1 DEF w
  <2>6. Len(w) + 1 = Len(q)
    BY <2>1 DEF w
  <2> HIDE DEF r
  <2>7. l = r
    <3>1. \A i \in 1 .. Len(l) : l[i] = r[i]
      BY <2>3, <2>4, <2>5, <2>6
    <3> QED
      BY <2>3, <2>4, <2>6, <3>1, SeqEqual
  <2> QED
    BY <2>7 DEF l, r, w
<1>9. stack' = [stack EXCEPT ![t] = <<f>> \o Tail(@)]
  BY <1>6, <1>8 DEF q
<1>10. f.at \in CheckStates /\ View(t).at \in CheckStates
  BY <1>5 DEF CheckStates
<1> QED
  BY <1>5, <1>9, <1>10, CheckTurns DEF f

LEMMA Popped ==
  ASSUME NEW S, NEW q \in Seq(S), q # <<>>
  PROVE  /\ Tail(q) \in Seq(S) /\ Len(Tail(q)) = Len(q) - 1 /\ Len(q) \in Nat \ {0}
         /\ Tail(q) # <<>> => Head(Tail(q)) = q[2] /\ 2 \in 2 .. Len(q)
         /\ \A i \in 2 .. Len(Tail(q)) : Tail(q)[i] = q[i + 1] /\ i + 1 \in 2 .. Len(q)
<1>1. /\ Tail(q) \in Seq(S) /\ Len(Tail(q)) = Len(q) - 1 /\ Len(q) \in Nat \ {0}
      /\ \A k \in 1 .. Len(Tail(q)) : Tail(q)[k] = q[k + 1] /\ k + 1 \in 1 .. Len(q)
  BY Shorter
<1>2. ASSUME Tail(q) # <<>> PROVE Head(Tail(q)) = q[2] /\ 2 \in 2 .. Len(q)
  <2> DEFINE w == Tail(q)
  <2>1. w \in Seq(S) /\ w # <<>>
    BY <1>1, <1>2
  <2> HIDE DEF w
  <2>2. Head(w) = w[1] /\ 1 \in 1 .. Len(w) /\ Len(w) >= 1
    BY <2>1, Shorter
  <2> QED
    BY <1>1, <2>2 DEF w
<1> QED
  BY <1>1, <1>2

LEMMA Called ==
  ASSUME NEW S, NEW q \in Seq(S), q # <<>>, NEW f, NEW g
  PROVE  LET r == <<f, g>> \o Tail(q) IN
         /\ \E T : r \in Seq(T)
         /\ r # <<>> /\ Len(r) = Len(q) + 1 /\ Len(q) \in Nat \ {0} /\ Head(r) = f /\ r[1] = f
         /\ r[2] = g /\ \A i \in 3 .. Len(q) + 1 : r[i] = q[i - 1] /\ i - 1 \in 2 .. Len(q)
<1>1. Tail(q) \in Seq(S) /\ Len(Tail(q)) = Len(q) - 1 /\ Len(q) \in Nat \ {0}
      /\ \A k \in 1 .. Len(Tail(q)) : Tail(q)[k] = q[k + 1]
  BY Shorter
<1> DEFINE U == S \cup {f, g}
<1>2. Tail(q) \in Seq(U) /\ f \in U /\ g \in U /\ <<f, g>> \in Seq(U)
  BY <1>1
<1> DEFINE w == Tail(q)
<1> HIDE DEF U, w
<1>3. /\ <<f, g>> \o w \in Seq(U) /\ Len(<<f, g>> \o w) = Len(w) + 2
      /\ \A i \in 1 .. Len(w) + 2 :
           (<<f, g>> \o w)[i] = IF i = 1 THEN f ELSE IF i = 2 THEN g ELSE w[i - 2]
  BY <1>2 DEF w
<1>4. \A i \in 3 .. Len(q) + 1 : (<<f, g>> \o w)[i] = q[i - 1] /\ i - 1 \in 2 .. Len(q)
  BY <1>1, <1>3 DEF w
<1>5. Head(<<f, g>> \o w) = f /\ <<f, g>> \o w # <<>>
  BY <1>1, <1>3 DEF w
<1> QED
  BY <1>1, <1>3, <1>4, <1>5 DEF w

\* The command thread has nothing innermost to do.
Inert(f) == f.at = "idle" \/ (f.at = "ports" /\ f.todo = {})

LEMMA CmdTurns ==
  ASSUME Stacks, View("cmd").at # "idle", NEW f, CmdFrame(f), f.at # "run",
         Replace("cmd", <<f>>)
  PROVE  Stacks' /\ View("cmd")' = f /\ OtherViews("cmd") /\ Call' = Call
<1>1. PICK S : stack \in [Threads -> Seq(S)]
  BY DEF Stacks
<1>2. "cmd" \in Threads /\ stack["cmd"] \in Seq(S) /\ stack["cmd"] # <<>>
  BY <1>1 DEF View, Nowhere, Frame, Threads
<1> DEFINE r == <<f>> \o Tail(stack["cmd"])
<1>3. /\ \E T : r \in Seq(T)
      /\ r # <<>> /\ Len(r) = Len(stack["cmd"]) /\ Head(r) = f
      /\ \A i \in 2 .. Len(stack["cmd"]) : r[i] = stack["cmd"][i]
  BY <1>2, Turned
<1>4. stack' = [stack EXCEPT !["cmd"] = r]
  BY DEF Replace
<1> HIDE DEF r
<1>5. /\ \E T : stack' \in [Threads -> Seq(T)]
      /\ stack'["cmd"] = r /\ \A u \in Threads : u # "cmd" => stack'[u] = stack[u]
  BY <1>1, <1>2, <1>3, <1>4, StackChanges
<1>6. View("cmd")' = f
  BY <1>3, <1>5 DEF View
<1>7. OtherViews("cmd") /\ Call' = Call /\ ClientShape'
  BY <1>2, <1>5, ViewsKept DEF Stacks
<1>8. RunFrames'
  BY <1>6, <1>7 DEF RunFrames, OtherViews, Stacks
<1>9. CmdFrame(View("cmd"))'
  BY <1>6 DEF CmdFrame
<1>10. ASSUME NEW i \in 2 .. Len(stack'["cmd"]) PROVE RestFrame(stack'["cmd"][i])
  BY <1>3, <1>5 DEF Stacks, CmdShape
<1>11. CmdShape'
  BY <1>9, <1>10 DEF CmdShape, RestFrame
<1> QED
  BY <1>5, <1>6, <1>7, <1>8, <1>11 DEF Stacks

LEMMA CmdCalls ==
  ASSUME Stacks, View("cmd").at # "idle", NEW f, CmdFrame(f), f.at # "run", NEW g, RestFrame(g),
         Replace("cmd", <<f, g>>)
  PROVE  Stacks' /\ View("cmd")' = f /\ OtherViews("cmd") /\ Call' = Call
<1>1. PICK S : stack \in [Threads -> Seq(S)]
  BY DEF Stacks
<1>2. "cmd" \in Threads /\ stack["cmd"] \in Seq(S) /\ stack["cmd"] # <<>>
  BY <1>1 DEF View, Nowhere, Frame, Threads
<1> DEFINE r == <<f, g>> \o Tail(stack["cmd"])
<1>3. /\ \E T : r \in Seq(T)
      /\ r # <<>> /\ Len(r) = Len(stack["cmd"]) + 1 /\ Head(r) = f /\ r[2] = g
      /\ \A i \in 3 .. Len(stack["cmd"]) + 1 :
           r[i] = stack["cmd"][i - 1] /\ i - 1 \in 2 .. Len(stack["cmd"])
  BY <1>2, Called
<1>4. stack' = [stack EXCEPT !["cmd"] = r]
  BY DEF Replace
<1> HIDE DEF r
<1>5. /\ \E T : stack' \in [Threads -> Seq(T)]
      /\ stack'["cmd"] = r /\ \A u \in Threads : u # "cmd" => stack'[u] = stack[u]
  BY <1>1, <1>2, <1>3, <1>4, StackChanges
<1>6. View("cmd")' = f
  BY <1>3, <1>5 DEF View
<1>7. OtherViews("cmd") /\ Call' = Call /\ ClientShape'
  BY <1>2, <1>5, ViewsKept DEF Stacks
<1>8. RunFrames'
  BY <1>6, <1>7 DEF RunFrames, OtherViews, Stacks
<1>9. CmdFrame(View("cmd"))'
  BY <1>6 DEF CmdFrame
<1>10. ASSUME NEW i \in 2 .. Len(stack'["cmd"]) PROVE RestFrame(stack'["cmd"][i])
  <2>1. CASE i = 2
    BY <1>3, <1>5, <2>1
  <2>2. CASE i # 2
    <3>1. i \in 3 .. Len(stack["cmd"]) + 1
      BY <1>3, <1>5, <2>2
    <3> QED
      BY <1>3, <1>5, <3>1 DEF Stacks, CmdShape
  <2> QED
    BY <2>1, <2>2
<1>11. CmdShape'
  BY <1>9, <1>10 DEF CmdShape, RestFrame
<1> QED
  BY <1>5, <1>6, <1>7, <1>8, <1>11 DEF Stacks

LEMMA CmdReturns ==
  ASSUME Stacks, View("cmd").at # "idle", Replace("cmd", <<>>)
  PROVE  Stacks' /\ Inert(View("cmd")') /\ OtherViews("cmd") /\ Call' = Call
<1>1. PICK S : stack \in [Threads -> Seq(S)]
  BY DEF Stacks
<1>2. "cmd" \in Threads /\ stack["cmd"] \in Seq(S) /\ stack["cmd"] # <<>>
  BY <1>1 DEF View, Nowhere, Frame, Threads
<1> DEFINE r == Tail(stack["cmd"])
<1>3. /\ r \in Seq(S)
      /\ r # <<>> => Head(r) = stack["cmd"][2] /\ 2 \in 2 .. Len(stack["cmd"])
      /\ \A i \in 2 .. Len(r) : r[i] = stack["cmd"][i + 1] /\ i + 1 \in 2 .. Len(stack["cmd"])
  BY <1>2, Popped
<1>4. stack' = [stack EXCEPT !["cmd"] = r]
  BY <1>2, <1>3 DEF Replace
<1> HIDE DEF r
<1>5. /\ \E T : stack' \in [Threads -> Seq(T)]
      /\ stack'["cmd"] = r /\ \A u \in Threads : u # "cmd" => stack'[u] = stack[u]
  BY <1>1, <1>2, <1>3, <1>4, StackChanges
<1>6. View("cmd")' = Nowhere \/ RestFrame(View("cmd")')
  BY <1>3, <1>5 DEF View, Stacks, CmdShape
<1>7. OtherViews("cmd") /\ Call' = Call /\ ClientShape'
  BY <1>2, <1>5, ViewsKept DEF Stacks
<1>8. View("cmd")'.at # "run" /\ CmdFrame(View("cmd")') /\ Inert(View("cmd")')
  <2>1. ASSUME NEW v, v = Nowhere \/ RestFrame(v) PROVE v.at # "run" /\ CmdFrame(v) /\ Inert(v)
    <3>1. CASE v = Nowhere
      BY <3>1 DEF Nowhere, Frame, Inert, CmdFrame, CheckStates
    <3>2. CASE RestFrame(v)
      BY <3>2 DEF RestFrame, Inert, CmdFrame, CheckStates
    <3> QED
      BY <2>1, <3>1, <3>2
  <2> QED
    BY <1>6, <2>1
<1>9. RunFrames'
  BY <1>7, <1>8 DEF RunFrames, OtherViews, Stacks
<1>10. ASSUME NEW i \in 2 .. Len(stack'["cmd"]) PROVE RestFrame(stack'["cmd"][i])
  BY <1>3, <1>5 DEF Stacks, CmdShape
<1>11. CmdShape'
  BY <1>8, <1>10 DEF CmdShape, RestFrame, CmdFrame
<1> QED
  BY <1>5, <1>7, <1>8, <1>9, <1>11 DEF Stacks

LEMMA CmdWakes ==
  ASSUME Stacks, stack["cmd"] = <<>>, NEW f, f.at = "take", f.port = 1,
         stack' = [stack EXCEPT !["cmd"] = <<f>>]
  PROVE  Stacks' /\ View("cmd")' = f /\ OtherViews("cmd") /\ Call' = Call
<1>1. PICK S : stack \in [Threads -> Seq(S)]
  BY DEF Stacks
<1>2. "cmd" \in Threads /\ <<f>> \in Seq({f}) /\ Head(<<f>>) = f /\ Len(<<f>>) = 1 /\ <<f>> # <<>>
  BY DEF Threads
<1>3. /\ \E T : stack' \in [Threads -> Seq(T)]
      /\ stack'["cmd"] = <<f>> /\ \A u \in Threads : u # "cmd" => stack'[u] = stack[u]
  BY <1>1, <1>2, StackChanges
<1>4. View("cmd")' = f
  BY <1>2, <1>3 DEF View
<1>5. OtherViews("cmd") /\ Call' = Call /\ ClientShape'
  BY <1>2, <1>3, ViewsKept DEF Stacks
<1>6. RunFrames' /\ CmdFrame(View("cmd")')
  BY <1>4, <1>5 DEF RunFrames, OtherViews, Stacks, CmdFrame, CheckStates
<1>7. CmdShape'
  <2>1. Len(stack'["cmd"]) = 1 /\ 2 .. 1 = {}
    BY <1>2, <1>3
  <2> QED
    BY <1>6, <2>1 DEF CmdShape, CmdFrame
<1> QED
  BY <1>3, <1>4, <1>5, <1>6, <1>7 DEF Stacks

\* The calls of the client.
LEMMA ClientViews ==
  ASSUME Stacks
  PROVE  /\ View("client").at \in CheckStates \cup {"idle", "post", "allocate", "free"}
         /\ View("client").at \in CheckStates => Call \in {"allocate", "free"} /\ View("client").port = 1
         /\ View("client").at \notin CheckStates => Call = View("client").at
         /\ View("client").at \in {"allocate", "free"} => View("client").port = 1
<1>1. PICK S : stack["client"] \in Seq(S)
  BY DEF Stacks, Threads
<1> DEFINE q == stack["client"]
<1>2. CASE q = <<>>
  BY <1>2 DEF View, Call, Nowhere, Frame, CheckStates
<1>3. CASE q # <<>>
  <2>1. View("client") = q[1] /\ Call = q[Len(q)].at
    BY <1>1, <1>3 DEF View, Call
  <2> QED
    BY <1>3, <2>1 DEF Stacks, ClientShape, CheckStates
<1> QED
  BY <1>2, <1>3

LEMMA ClientFrames ==
  ASSUME Stacks, NEW r, \E T : r \in Seq(T), stack' = [stack EXCEPT !["client"] = r],
         \/ r = <<>>
         \/ /\ Len(r) = 1 /\ r[1].at \in {"post", "allocate", "free"}
            /\ r[1].at # "post" => r[1].port = 1
         \/ /\ Len(r) = 2 /\ r[1].at = "take" /\ r[1].port = 1
            /\ r[2].at \in {"allocate", "free"} /\ r[2].port = 1
  PROVE  /\ Stacks' /\ OtherViews("client")
         /\ r = <<>> => View("client")' = Nowhere /\ Call' = "idle"
         /\ Len(r) = 1 => View("client")' = r[1] /\ Call' = r[1].at
         /\ Len(r) = 2 => View("client")' = r[1] /\ Call' = r[2].at
<1>1. PICK S : stack \in [Threads -> Seq(S)]
  BY DEF Stacks
<1>2. "client" \in Threads
  BY DEF Threads
<1>3. /\ \E T : stack' \in [Threads -> Seq(T)]
      /\ stack'["client"] = r /\ \A u \in Threads : u # "client" => stack'[u] = stack[u]
  BY <1>1, <1>2, StackChanges
<1>4. OtherViews("client") /\ CmdShape'
  BY <1>2, <1>3, ViewsKept DEF Stacks
<1>5. ClientShape'
  BY <1>3 DEF ClientShape, CheckStates
<1>6. /\ r = <<>> => View("client")' = Nowhere /\ Call' = "idle"
      /\ Len(r) = 1 => View("client")' = r[1] /\ Call' = r[1].at
      /\ Len(r) = 2 => View("client")' = r[1] /\ Call' = r[2].at
  BY <1>3 DEF View, Call
<1>7. View("client")'.at # "run"
  BY <1>6 DEF Nowhere, Frame
<1>8. RunFrames'
  BY <1>4, <1>7 DEF RunFrames, OtherViews, Stacks
<1> QED
  BY <1>3, <1>4, <1>5, <1>6, <1>8 DEF Stacks

LEMMA ClientCalls ==
  ASSUME Stacks, NEW what \in {"allocate", "free"},
         stack' = [stack EXCEPT !["client"] = <<Check, Frame(what, 1, {}, {})>>]
  PROVE  Stacks' /\ OtherViews("client") /\ View("client")' = Check /\ Call' = what
<1> DEFINE r == <<Check, Frame(what, 1, {}, {})>>
<1>1. \E T : r \in Seq(T)
  <2>1. r \in Seq({Check, Frame(what, 1, {}, {})})
    OBVIOUS
  <2> QED
    BY <2>1
<1>2. /\ Len(r) = 2 /\ r[1] = Check /\ r[1].at = "take" /\ r[1].port = 1
      /\ r[2].at = what /\ r[2].port = 1
  BY DEF Check, Frame
<1>3. stack' = [stack EXCEPT !["client"] = r]
  OBVIOUS
<1> HIDE DEF r
<1> QED
  BY <1>1, <1>2, <1>3, ClientFrames

LEMMA ClientPosts ==
  ASSUME Stacks, stack' = [stack EXCEPT !["client"] = <<Frame("post", 0, {}, {})>>]
  PROVE  Stacks' /\ OtherViews("client") /\ View("client")'.at = "post" /\ Call' = "post"
<1> DEFINE r == <<Frame("post", 0, {}, {})>>
<1>1. \E T : r \in Seq(T)
  <2>1. r \in Seq({Frame("post", 0, {}, {})})
    OBVIOUS
  <2> QED
    BY <2>1
<1>2. Len(r) = 1 /\ r[1].at = "post"
  BY DEF Frame
<1>3. stack' = [stack EXCEPT !["client"] = r]
  OBVIOUS
<1> HIDE DEF r
<1> QED
  BY <1>1, <1>2, <1>3, ClientFrames

LEMMA ClientIdles ==
  ASSUME Stacks, stack' = [stack EXCEPT !["client"] = <<>>]
  PROVE  Stacks' /\ OtherViews("client") /\ View("client")'.at = "idle" /\ Call' = "idle"
<1> DEFINE r == <<>>
<1>1. (\E T : r \in Seq(T)) /\ r = <<>> /\ stack' = [stack EXCEPT !["client"] = r]
  <2>1. r \in Seq({})
    OBVIOUS
  <2> QED
    BY <2>1
<1> HIDE DEF r
<1>2. Stacks' /\ OtherViews("client") /\ View("client")' = Nowhere /\ Call' = "idle"
  BY <1>1, ClientFrames
<1> QED
  BY <1>2 DEF Nowhere, Frame

LEMMA ClientEnds ==
  ASSUME Stacks, View("client").at \in {"post", "allocate", "free"},
         \/ Replace("client", <<>>)
         \/ Replace("client", <<Frame("post", 0, {}, {})>>)
  PROVE  /\ Stacks' /\ OtherViews("client")
         /\ View("client")'.at \in {"idle", "post"} /\ Call' \in {"idle", "post"}
<1>1. PICK S : stack \in [Threads -> Seq(S)]
  BY DEF Stacks
<1>2. "client" \in Threads /\ stack["client"] \in Seq(S) /\ stack["client"] # <<>>
  BY <1>1 DEF View, Nowhere, Frame, Threads
<1>3. View("client") = stack["client"][1]
  BY <1>2 DEF View
<1>4. Len(stack["client"]) = 1
  BY <1>2, <1>3 DEF Stacks, ClientShape, CheckStates
<1>5. Tail(stack["client"]) = <<>>
  <2>1. Tail(stack["client"]) \in Seq(S) /\ Len(Tail(stack["client"])) = 0
    BY <1>2, <1>4, Shorter
  <2> DEFINE w == Tail(stack["client"])
  <2> HIDE DEF w
  <2>2. w \in Seq(S) /\ Len(w) = 0
    BY <2>1 DEF w
  <2>3. w = <<>>
    BY <2>2
  <2> QED
    BY <2>3 DEF w
<1>6. CASE Replace("client", <<>>)
  <2>1. stack' = [stack EXCEPT !["client"] = <<>>]
    <3>1. <<>> \o <<>> = <<>>
      OBVIOUS
    <3> QED
      BY <1>5, <1>6, <3>1 DEF Replace
  <2> QED
    BY <2>1, ClientIdles
<1>7. CASE Replace("client", <<Frame("post", 0, {}, {})>>)
  <2> DEFINE f == Frame("post", 0, {}, {})
  <2> HIDE DEF f
  <2>1. <<f>> \o <<>> = <<f>>
    BY SeqEqual
  <2>2. stack' = [stack EXCEPT !["client"] = <<f>>]
    BY <1>5, <1>7, <2>1 DEF Replace, f
  <2> QED
    BY <2>2, ClientPosts DEF f
<1> QED
  BY <1>6, <1>7

LEMMA ClientLeaves ==
  ASSUME Stacks, View("client").at \in CheckStates, Replace("client", <<>>)
  PROVE  Stacks' /\ OtherViews("client") /\ View("client")'.at = Call /\ Call' = Call
<1>1. PICK S : stack \in [Threads -> Seq(S)]
  BY DEF Stacks
<1>2. "client" \in Threads /\ stack["client"] \in Seq(S) /\ stack["client"] # <<>>
  BY <1>1 DEF View, Nowhere, Frame, Threads, CheckStates
<1> DEFINE q == stack["client"]  r == Tail(q)
<1>3. View("client") = q[1] /\ Call = q[Len(q)].at
  BY <1>2 DEF View, Call
<1>4. Len(q) = 2 /\ q[2].at \in {"allocate", "free"} /\ q[2].port = 1
  BY <1>2, <1>3 DEF Stacks, ClientShape, CheckStates
<1>5. r \in Seq(S) /\ Len(r) = 1 /\ r[1] = q[2]
  <2> HIDE DEF q
  <2>1. q \in Seq(S) /\ q # <<>>
    BY <1>2 DEF q
  <2>2. Tail(q) \in Seq(S) /\ Len(Tail(q)) = Len(q) - 1 /\ \A k \in 1 .. Len(Tail(q)) : Tail(q)[k] = q[k + 1]
    BY <2>1, Shorter
  <2> QED
    BY <1>4, <2>2
<1>6. stack' = [stack EXCEPT !["client"] = r]
  BY <1>2, <1>5 DEF Replace
<1>7. r[1].at = Call /\ r[1].port = 1 /\ r[1].at \in {"allocate", "free"}
  BY <1>3, <1>4, <1>5
<1> HIDE DEF r, q
<1> QED
  BY <1>5, <1>6, <1>7, ClientFrames

\* Answers are owed for what waits and for what is in progress.
LEMMA QueuedFinite ==
  ASSUME OmxTypes, NEW a PROVE IsFiniteSet(Queued(a)) /\ Cardinality(Queued(a)) \in Nat
<1>1. Len(queue) \in Nat
  BY DEF OmxTypes
<1>2. IsFiniteSet(1 .. Len(queue)) /\ Queued(a) \subseteq 1 .. Len(queue)
  BY <1>1, FS_Interval DEF Queued
<1>3. IsFiniteSet(Queued(a))
  BY <1>2, FS_Subset
<1> QED
  BY <1>3, FS_CardinalityType

LEMMA OwedKept ==
  ASSUME OmxTypes, OwedLeft, UNCHANGED <<queue, owed>>, \A a \in Answers : Busy(a)' => Busy(a)
  PROVE  OwedLeft'
<1>1. ASSUME NEW a \in Answers
      PROVE  owed'[a] >= Cardinality(Queued(a)') + (IF Busy(a)' THEN 1 ELSE 0)
  <2>1. Queued(a)' = Queued(a) /\ owed' = owed
    BY DEF Queued
  <2>2. Cardinality(Queued(a)) \in Nat /\ owed[a] \in Nat
    BY QueuedFinite DEF OmxTypes
  <2>3. owed[a] >= Cardinality(Queued(a)) + (IF Busy(a) THEN 1 ELSE 0)
    BY DEF OwedLeft
  <2> DEFINE c == Cardinality(Queued(a))  x == owed[a]
  <2>4. Cardinality(Queued(a)') = c /\ owed'[a] = x
    BY <2>1
  <2> HIDE DEF c, x
  <2>5. x >= c + (IF Busy(a)' THEN 1 ELSE 0)
    <3>1. CASE Busy(a)
      BY <2>2, <2>3, <3>1 DEF c, x
    <3>2. CASE ~Busy(a)
      BY <2>2, <2>3, <3>2 DEF c, x
    <3> QED
      BY <3>1, <3>2
  <2> QED
    BY <2>4, <2>5
<1> QED
  BY <1>1 DEF OwedLeft

LEMMA OwedAnswered ==
  ASSUME OmxTypes, OwedLeft, UNCHANGED queue, NEW b \in Answers, NEW ok, NEW from,
         Answer(b, ok, from), Busy(b), ~Busy(b)',
         \A a \in Answers : a # b => (Busy(a)' => Busy(a))
  PROVE  OwedLeft' /\ owed' \in [Answers -> Nat] /\ \A a \in Answers : a # b => owed'[a] = owed[a]
<1>1. ASSUME NEW a \in Answers
      PROVE  /\ owed'[a] \in Nat /\ (a # b => owed'[a] = owed[a])
             /\ owed'[a] >= Cardinality(Queued(a)') + (IF Busy(a)' THEN 1 ELSE 0)
  <2>1. Queued(a)' = Queued(a)
    BY DEF Queued
  <2> DEFINE c == Cardinality(Queued(a))  x == owed[a]
  <2>2. c \in Nat /\ x \in Nat
    BY QueuedFinite DEF OmxTypes
  <2>3. x >= c + (IF Busy(a) THEN 1 ELSE 0)
    BY DEF OwedLeft
  <2>4. owed'[a] = IF a = b THEN (IF x > 0 THEN x - 1 ELSE 0) ELSE x
    BY DEF Answer, OmxTypes
  <2>5. Cardinality(Queued(a)') = c
    BY <2>1
  <2> HIDE DEF c, x
  <2>6. CASE a = b
    <3>1. x >= c + 1
      BY <2>3, <2>6
    <3>2. owed'[a] = x - 1 /\ ~Busy(a)'
      BY <2>2, <2>4, <2>6, <3>1
    <3> QED
      BY <2>2, <2>5, <2>6, <3>1, <3>2
  <2>7. CASE a # b
    <3>1. x >= c + (IF Busy(a)' THEN 1 ELSE 0)
      <4>1. CASE Busy(a)
        BY <2>2, <2>3, <4>1
      <4>2. CASE ~Busy(a)
        BY <2>2, <2>3, <2>7, <4>2
      <4> QED
        BY <4>1, <4>2
    <3> QED
      BY <2>2, <2>4, <2>5, <2>7, <3>1 DEF x
  <2> QED
    BY <2>6, <2>7
<1>2. owed' \in [Answers -> Nat]
  <2>1. owed' = [owed EXCEPT ![b] = IF @ > 0 THEN @ - 1 ELSE 0] /\ owed \in [Answers -> Nat]
    BY DEF Answer, OmxTypes
  <2> QED
    BY <2>1
<1> QED
  BY <1>1, <1>2 DEF OwedLeft

LEMMA OwedTaken ==
  ASSUME OmxTypes, OwedLeft, queue # <<>>, queue' = Tail(queue), UNCHANGED owed,
         \A a \in Answers : ~Busy(a) /\ (Busy(a)' => a \in Owes(Head(queue)))
  PROVE  OwedLeft'
<1> DEFINE n == Len(queue)
<1>1. /\ Tail(queue) \in Seq(Commands) /\ Len(Tail(queue)) = n - 1 /\ n \in Nat \ {0}
      /\ Head(queue) = queue[1] /\ 1 \in 1 .. n
      /\ \A k \in 1 .. Len(Tail(queue)) : Tail(queue)[k] = queue[k + 1] /\ k + 1 \in 1 .. n
  BY Shorter DEF OmxTypes
<1>2. ASSUME NEW a \in Answers
      PROVE  owed'[a] >= Cardinality(Queued(a)') + (IF Busy(a)' THEN 1 ELSE 0)
  <2> DEFINE Q == Queued(a)  R == Queued(a)'  Rest == Q \ {1}
  <2>1. \A i : i \in Q <=> i \in 1 .. n /\ a \in Owes(queue[i])
    BY DEF Queued
  <2>2. \A i : i \in R <=> i \in 1 .. n - 1 /\ a \in Owes(queue[i + 1])
    BY <1>1 DEF Queued
  <2>3. IsFiniteSet(Q) /\ Cardinality(Q) \in Nat
    BY QueuedFinite
  <2> DEFINE f == [j \in Rest |-> j - 1]
  <2> HIDE DEF Q, R, n
  <2>4. f \in Bijection(Rest, R)
    <3>1. \A i \in R : i + 1 \in Rest /\ (i + 1) - 1 = i
      BY <1>1, <2>1, <2>2
    <3>2. \A j \in Rest : j - 1 \in R
      BY <1>1, <2>1, <2>2
    <3>3. \A i, j \in Rest : i - 1 = j - 1 => i = j
      BY <2>1
    <3>4. f \in Injection(Rest, R)
      BY <3>2, <3>3 DEF Injection, IsInjective
    <3>5. f \in Surjection(Rest, R)
      <4>1. f \in [Rest -> R]
        BY <3>2
      <4>2. \A i \in R : \E j \in Rest : f[j] = i
        BY <3>1
      <4> QED
        BY <4>1, <4>2 DEF Surjection
    <3> QED
      BY <3>4, <3>5 DEF Bijection
  <2>5. /\ IsFiniteSet(Rest)
        /\ Cardinality(Rest) = Cardinality(Q) - (IF 1 \in Q THEN 1 ELSE 0)
    <3>1. CASE 1 \in Q
      BY <2>3, <3>1, FS_RemoveElement
    <3>2. CASE 1 \notin Q
      <4>1. Rest = Q
        BY <3>2
      <4> HIDE DEF Rest
      <4>2. Cardinality(Rest) = Cardinality(Q) /\ IsFiniteSet(Rest)
        BY <2>3, <4>1
      <4> QED
        BY <2>3, <3>2, <4>2
    <3> QED
      BY <3>1, <3>2
  <2>6. Cardinality(R) = Cardinality(Rest)
    BY <2>4, <2>5, FS_Bijection DEF ExistsBijection
  <2>7. owed'[a] = owed[a] /\ owed[a] \in Nat /\ owed[a] >= Cardinality(Q)
    BY <2>3 DEF Q, OwedLeft, OmxTypes
  <2>8. Busy(a)' => 1 \in Q
    BY <1>1, <2>1
  <2>9. owed'[a] >= Cardinality(R) + (IF Busy(a)' THEN 1 ELSE 0)
    <3>1. CASE 1 \in Q
      BY <2>3, <2>5, <2>6, <2>7, <3>1
    <3>2. CASE 1 \notin Q
      <4>1. ~Busy(a)'
        BY <2>8, <3>2
      <4> QED
        BY <2>3, <2>5, <2>6, <2>7, <3>2, <4>1
    <3> QED
      BY <3>1, <3>2
  <2> QED
    BY <2>9 DEF R
<1> QED
  BY <1>2 DEF OwedLeft

LEMMA OwedSent ==
  ASSUME OmxTypes, OwedLeft, NEW c \in Commands, queue' = Append(queue, c),
         owed' = [a \in Answers |-> owed[a] + IF a \in Owes(c) THEN 1 ELSE 0],
         \A a \in Answers : Busy(a)' => Busy(a)
  PROVE  OwedLeft'
<1> DEFINE n == Len(queue)
<1>1. /\ Len(queue') = n + 1 /\ n \in Nat /\ queue'[n + 1] = c
      /\ \A k \in 1 .. n : queue'[k] = queue[k]
  BY Longer DEF OmxTypes
<1>2. ASSUME NEW a \in Answers
      PROVE  owed'[a] >= Cardinality(Queued(a)') + (IF Busy(a)' THEN 1 ELSE 0)
  <2> DEFINE Q == Queued(a)  R == Queued(a)'
  <2>1. \A i : i \in Q <=> i \in 1 .. n /\ a \in Owes(queue[i])
    BY DEF Queued
  <2>2. \A i : i \in R <=> i \in 1 .. n + 1 /\ a \in Owes(queue'[i])
    BY <1>1 DEF Queued
  <2>3. IsFiniteSet(Q) /\ Cardinality(Q) \in Nat
    BY QueuedFinite
  <2>4. owed'[a] = owed[a] + (IF a \in Owes(c) THEN 1 ELSE 0)
    OBVIOUS
  <2> DEFINE x == owed[a]
  <2>5. x \in Nat /\ x >= Cardinality(Q) + (IF Busy(a) THEN 1 ELSE 0)
    BY DEF OwedLeft, OmxTypes
  <2> HIDE DEF Q, R, n
  <2>6. Cardinality(R) = Cardinality(Q) + (IF a \in Owes(c) THEN 1 ELSE 0)
    <3>1. CASE a \in Owes(c)
      <4>1. R = Q \cup {n + 1} /\ n + 1 \notin Q
        BY <1>1, <2>1, <2>2, <3>1
      <4> QED
        BY <2>3, <3>1, <4>1, FS_AddElement
    <3>2. CASE a \notin Owes(c)
      <4>1. R = Q
        <5>1. ASSUME NEW i \in R PROVE i \in Q
          <6>1. i \in 1 .. n + 1 /\ a \in Owes(queue'[i])
            BY <2>2
          <6>2. i # n + 1
            BY <1>1, <3>2, <6>1
          <6>3. i \in 1 .. n
            BY <1>1, <6>1, <6>2
          <6> QED
            BY <1>1, <2>1, <6>1, <6>3
        <5>2. ASSUME NEW i \in Q PROVE i \in R
          <6>1. i \in 1 .. n /\ a \in Owes(queue[i])
            BY <2>1
          <6>2. i \in 1 .. n + 1 /\ queue'[i] = queue[i]
            BY <1>1, <6>1
          <6> QED
            BY <2>2, <6>1, <6>2
        <5> QED
          BY <5>1, <5>2
      <4> QED
        BY <2>3, <3>2, <4>1
    <3> QED
      BY <3>1, <3>2
  <2>7. x >= Cardinality(Q) + (IF Busy(a)' THEN 1 ELSE 0)
    <3>1. CASE Busy(a)
      BY <2>3, <2>5, <3>1
    <3>2. CASE ~Busy(a)
      BY <2>3, <2>5, <3>2
    <3> QED
      BY <3>1, <3>2
  <2>8. owed'[a] >= Cardinality(R) + (IF Busy(a)' THEN 1 ELSE 0)
    <3> HIDE DEF x
    <3>1. CASE a \in Owes(c)
      BY <2>3, <2>4, <2>5, <2>6, <2>7, <3>1 DEF x
    <3>2. CASE a \notin Owes(c)
      BY <2>3, <2>4, <2>5, <2>6, <2>7, <3>2 DEF x
    <3> QED
      BY <3>1, <3>2
  <2> QED
    BY <2>8 DEF R
<1> QED
  BY <1>2 DEF OwedLeft

\* One port: what the checks look at.
LEMMA OnePort == ASSUME OmxAssumption PROVE Ports = {1} /\ 1 \in Ports /\ OmxPorts = 1
  BY DEF OmxAssumption, Ports

LEMMA Names ==
  /\ DOMAIN Pending = {"flush", "disable", "enable"}
  /\ Pending["flush"] = "pending flush" /\ Pending["disable"] = "pending disable"
  /\ Pending["enable"] = "pending enable"
  /\ \A a \in DOMAIN Pending : Pending[a] \in Pendings
  /\ DOMAIN Notify = {"Flush", "Enable", "Disable"} /\ "State" \notin DOMAIN Notify
  /\ Notify["Flush"] = "notify flush" /\ Notify["Enable"] = "notify enable"
  /\ Notify["Disable"] = "notify disable"
  /\ \A k \in DOMAIN Notify : Notify[k] \in {"notify flush", "notify enable", "notify disable"}
<1>1. /\ DOMAIN Pending = {"flush", "disable", "enable"}
      /\ Pending["flush"] = "pending flush" /\ Pending["disable"] = "pending disable"
      /\ Pending["enable"] = "pending enable"
  BY DEF Pending
<1>2. /\ DOMAIN Notify = {"Flush", "Enable", "Disable"}
      /\ Notify["Flush"] = "notify flush" /\ Notify["Enable"] = "notify enable"
      /\ Notify["Disable"] = "notify disable"
  BY DEF Notify
<1>3. \A a \in DOMAIN Pending : Pending[a] \in Pendings
  BY <1>1 DEF Pendings
<1>4. \A k \in DOMAIN Notify : Notify[k] \in {"notify flush", "notify enable", "notify disable"}
  BY <1>2
<1> QED
  BY <1>1, <1>2, <1>3, <1>4

LEMMA TopIsView ==
  ASSUME Stacks, NEW t \in Threads, NEW place, place # "idle"
  PROVE  At(t, place) <=> View(t).at = place
<1>1. CASE stack[t] = <<>>
  BY <1>1 DEF At, View, Nowhere, Frame
<1>2. CASE stack[t] # <<>>
  BY <1>2 DEF At, Top, View
<1> QED
  BY <1>1, <1>2

LEMMA TopView ==
  ASSUME NEW t, View(t).at # "idle" PROVE stack[t] # <<>> /\ Top(t) = View(t)
  BY DEF View, Top, Nowhere, Frame

\* A thread at a check looks at the port.
LEMMA AtCheck ==
  ASSUME OmxInv, NEW t \in Threads, NEW place \in CheckStates, At(t, place)
  PROVE  View(t).at = place /\ View(t).port = 1 /\ Top(t) = View(t)
<1>1. View(t).at = place /\ place # "idle"
  BY TopIsView DEF OmxInv, CheckStates
<1>2. View(t).port = 1
  <2>1. CASE t = "cmd"
    BY <1>1, <2>1 DEF OmxInv, Stacks, CmdShape, CmdFrame
  <2>2. CASE t = "client"
    BY <1>1, <2>2, ClientViews DEF OmxInv
  <2> QED
    BY <2>1, <2>2 DEF Threads
<1> QED
  BY <1>1, <1>2, TopView

\* What the threads carry out, when neither that nor the actions change.
LEMMA RunsSame ==
  ASSUME OmxInv, actions' = actions, \A t \in Threads : Todo(t)' = Todo(t) /\ Did(t)' = Did(t)
  PROVE  RunsMarked'
<1>1. ASSUME NEW u \in Threads
      PROVE  /\ Todo(u)' \subseteq DOMAIN Pending /\ Did(u)' \subseteq actions'[1] \cap Pendings
             /\ \A a \in Todo(u)' : Pending[a] \in Did(u)'
  <2>1. /\ Todo(u) \subseteq DOMAIN Pending /\ Did(u) \subseteq actions[1] \cap Pendings
        /\ \A a \in Todo(u) : Pending[a] \in Did(u)
    BY DEF OmxInv, RunsMarked
  <2>2. Todo(u)' = Todo(u) /\ Did(u)' = Did(u)
    OBVIOUS
  <2> QED
    BY <2>1, <2>2
<1>2. Did("cmd")' \cap Did("client")' = {}
  <2>1. Did("cmd")' = Did("cmd") /\ Did("client")' = Did("client")
    BY DEF Threads
  <2> QED
    BY <2>1 DEF OmxInv, RunsMarked
<1>3. \A a \in DOMAIN Pending : ~(a \in actions'[1] /\ Pending[a] \in actions'[1])
  BY DEF OmxInv, RunsMarked
<1> QED
  BY <1>1, <1>2, <1>3 DEF RunsMarked

\* What holds of the port when nothing of it changes.
LEMMA OmxSame ==
  ASSUME OmxInv,
         UNCHANGED <<state, transition, actions, enabled, buffers, populated, on, pool, transit,
                     held, own, ret, shorted>>,
         failures' = 0 => failures = 0,
         \A t \in Threads : Todo(t)' = Todo(t) /\ Did(t)' = Did(t)
  PROVE  RunsMarked' /\ InProgress' /\ EnabledOn' /\ Headers' /\ NeverShort'
<1>1. RunsMarked'
  BY RunsSame
<1>2. /\ (Enabling' <=> Enabling) /\ (Disabling' <=> Disabling) /\ (Flushing' <=> Flushing)
      /\ (EnablePending' <=> EnablePending) /\ (DisablePending' <=> DisablePending)
  BY DEF Enabling, Disabling, Flushing, EnablePending, DisablePending
<1>3. InProgress'
  BY <1>2 DEF OmxInv, InProgress
<1>4. EnabledOn'
  BY <1>2 DEF OmxInv, EnabledOn
<1>5. Headers'
  BY DEF OmxInv, Headers
<1>6. NeverShort'
  BY DEF OmxInv, NeverShort
<1> QED
  BY <1>1, <1>3, <1>4, <1>5, <1>6

\* A thread that goes on within a check, or the client alone, leaves what the
\* command thread is about to do.
LEMMA CheckQuiet ==
  ASSUME NEW t \in Threads, OtherViews(t),
         t = "cmd" => View(t).at \in CheckStates /\ View(t)'.at \in CheckStates
  PROVE  /\ Quiet' <=> Quiet
         /\ View("cmd")' # View("cmd") => View("cmd")'.at \in CheckStates /\ View("cmd").at \in CheckStates
<1>1. CASE t = "cmd"
  BY <1>1 DEF Quiet, CheckStates
<1>2. CASE t = "client"
  <2>1. View("cmd")' = View("cmd")
    BY <1>2 DEF OtherViews, Threads
  <2> QED
    BY <2>1 DEF Quiet
<1> QED
  BY <1>1, <1>2 DEF Threads

LEMMA OmxQuietSame ==
  ASSUME OmxInv, UNCHANGED <<state, transition, actions, enabled, buffers, populated, on, transit>>,
         failures' = 0 => failures = 0,
         Quiet' => Quiet \/ (actions[1] = {} /\ transition = NoTransition),
         View("cmd")' # View("cmd") => View("cmd")'.at # "notify"
  PROVE  QuietIdle' /\ NotifyDone'
<1>1. QuietIdle'
  BY DEF OmxInv, QuietIdle
<1>2. CASE View("cmd")' = View("cmd")
  BY <1>1, <1>2 DEF OmxInv, NotifyDone
<1>3. CASE View("cmd")' # View("cmd")
  BY <1>1, <1>3 DEF NotifyDone
<1> QED
  BY <1>2, <1>3, <1>1

\* What is owed for what is in progress.
LEMMA BusyLess ==
  ASSUME UNCHANGED transition,
         \A k \in DOMAIN Notify : Notify[k] \in actions'[1] => Notify[k] \in actions[1],
         \/ View("cmd")' = View("cmd")
         \/ View("cmd")'.at \in CheckStates \cup {"idle", "next"}
         \/ View("cmd")'.at = "ports" /\ View("cmd")'.todo = {},
         NEW a, Busy(a)'
  PROVE  Busy(a)
  BY DEF Busy, CheckStates

\* A step that moves only the stacks, and not within a run.
LEMMA OmxMoved ==
  ASSUME OmxInv, Stacks', NEW t \in Threads, OtherViews(t), View(t).at # "run", View(t)'.at # "run",
         UNCHANGED <<state, transition, portVars, on, pool, held, own, shorted, ret, queue, owed>>,
         failures' \in Nat, failures' = 0 => failures = 0,
         Call' \in {"allocate", "free"} => Call' = Call,
         Quiet' => Quiet \/ (actions[1] = {} /\ transition = NoTransition),
         View("cmd")' # View("cmd") =>
           \/ View("cmd")'.at \in CheckStates \cup {"idle", "next"}
           \/ View("cmd")'.at = "ports" /\ View("cmd")'.todo = {}
  PROVE  OmxInv'
<1>1. \A u \in Threads : Todo(u)' = Todo(u) /\ Did(u)' = Did(u)
  BY DEF Todo, Did, OtherViews
<1>2. UNCHANGED <<enabled, actions, buffers, populated, transit>>
  BY DEF portVars
<1>3. RunsMarked' /\ InProgress' /\ EnabledOn' /\ Headers' /\ NeverShort'
  BY <1>1, <1>2, OmxSame
<1>4. QuietIdle' /\ NotifyDone'
  BY <1>2, OmxQuietSame DEF CheckStates
<1>5. ClientAsked'
  BY <1>2 DEF OmxInv, ClientAsked
<1>6. \A a \in Answers : Busy(a)' => Busy(a)
  BY <1>2, BusyLess
<1>7. OwedLeft'
  BY <1>6, OwedKept DEF OmxInv
<1>8. OmxTypes'
  BY <1>2 DEF OmxInv, OmxTypes
<1> QED
  BY <1>3, <1>4, <1>5, <1>7, <1>8 DEF OmxInv

LEMMA OmxNoActions ==
  ASSUME OmxAssumption, OmxInv, NEW t \in Threads, NoActions(t)
  PROVE  OmxInv'
<1>1. View(t).at = "take" /\ Top(t).port = 1 /\ Top(t) = View(t)
  BY AtCheck DEF NoActions, CheckStates
<1> DEFINE f == Frame("left", 1, {}, {})
<1>2. f.at = "left" /\ f.port = 1
  BY DEF Frame
<1>3. stack' = [stack EXCEPT ![t] = <<f>> \o Tail(@)]
  BY <1>1, OnePort DEF NoActions, NextPort, Replace
<1> HIDE DEF f
<1>4. Stacks' /\ View(t)' = f /\ OtherViews(t) /\ Call' = Call
  <2>1. View(t).at \in CheckStates /\ f.at \in CheckStates /\ f.at # "run" /\ Stacks
    BY <1>1, <1>2 DEF OmxInv, CheckStates
  <2> QED
    BY <1>2, <1>3, <2>1, CheckTurns
<1>5. /\ Quiet' <=> Quiet
      /\ View("cmd")' # View("cmd") => View("cmd")'.at \in CheckStates /\ View("cmd").at \in CheckStates
  BY <1>1, <1>2, <1>4, CheckQuiet DEF CheckStates
<1>6. /\ UNCHANGED <<state, transition, portVars, on, pool, held, own, shorted, ret, queue, owed>>
      /\ failures' = failures
  BY DEF NoActions, mmalVars, seenVars
<1>7. failures' \in Nat
  BY <1>6 DEF OmxInv, OmxTypes
<1> QED
  BY <1>1, <1>2, <1>4, <1>5, <1>6, <1>7, OmxMoved

LEMMA OmxPortsDone ==
  ASSUME OmxAssumption, OmxInv, NEW t \in Threads, PortsDone(t)
  PROVE  OmxInv'
<1>1. View(t).at = "ports" /\ Top(t) = View(t)
  BY TopIsView, TopView DEF PortsDone, OmxInv
<1>2. t = "cmd"
  BY <1>1, ClientViews DEF OmxInv, CheckStates, Threads
<1>3. Stacks' /\ Inert(View("cmd")') /\ OtherViews("cmd") /\ Call' = Call
  BY <1>1, <1>2, CmdReturns DEF OmxInv, PortsDone
<1>4. /\ UNCHANGED <<state, transition, portVars, on, pool, held, own, shorted, ret, queue, owed>>
      /\ failures' = failures
  BY DEF PortsDone, mmalVars, seenVars
<1>5. failures' \in Nat
  BY <1>4 DEF OmxInv, OmxTypes
<1>6. ~Quiet' /\ View("cmd")'.at # "run"
  BY <1>3 DEF Inert, Quiet
<1>7. View("cmd")'.at \in CheckStates \cup {"idle", "next"}
      \/ (View("cmd")'.at = "ports" /\ View("cmd")'.todo = {})
  BY <1>3 DEF Inert
<1> QED
  BY <1>1, <1>2, <1>3, <1>4, <1>5, <1>6, <1>7, OmxMoved

LEMMA OmxCmdThread ==
  ASSUME OmxAssumption, OmxInv, CmdThread
  PROVE  OmxInv'
<1>1. "cmd" \in Threads /\ View("cmd").at = "idle"
  BY DEF CmdThread, View, Nowhere, Frame, Threads
<1> DEFINE f == Check
<1>2. f.at = "take" /\ f.port = 1
  BY DEF Check, Frame
<1>3. stack' = [stack EXCEPT !["cmd"] = <<f>>] /\ stack["cmd"] = <<>>
  BY DEF CmdThread
<1> HIDE DEF f
<1>4. Stacks' /\ View("cmd")' = f /\ OtherViews("cmd") /\ Call' = Call
  BY <1>2, <1>3, CmdWakes DEF OmxInv
<1>5. /\ UNCHANGED <<state, transition, portVars, on, pool, held, own, shorted, ret, queue, owed>>
      /\ failures' = failures
  BY DEF CmdThread, mmalVars, seenVars
<1>6. failures' \in Nat
  BY <1>5 DEF OmxInv, OmxTypes
<1>7. ~Quiet' /\ View("cmd")'.at \in CheckStates
  BY <1>2, <1>4 DEF Quiet, CheckStates
<1> QED
  BY <1>1, <1>2, <1>4, <1>5, <1>6, <1>7, OmxMoved

LEMMA OmxCallBuffers ==
  ASSUME OmxAssumption, OmxInv, NEW p \in Ports, NEW what \in {"allocate", "free"},
         CallBuffers(what, p)
  PROVE  OmxInv'
<1>1. p = 1 /\ "client" \in Threads /\ View("client").at = "idle"
  <2>1. p = 1
    BY OnePort
  <2> QED
    BY <2>1 DEF CallBuffers, View, Nowhere, Frame, Threads
<1>2. Stacks' /\ OtherViews("client") /\ View("client")' = Check /\ Call' = what
  BY <1>1, ClientCalls DEF OmxInv, CallBuffers
<1>3. View("client")'.at = "take"
  BY <1>2 DEF Check, Frame
<1>4. View("cmd")' = View("cmd")
  BY <1>2 DEF OtherViews, Threads
<1>5. \A u \in Threads : Todo(u)' = Todo(u) /\ Did(u)' = Did(u)
  BY <1>1, <1>2, <1>3 DEF Todo, Did, OtherViews
<1>6. UNCHANGED <<state, transition, enabled, actions, buffers, populated, transit, on, pool, held,
                  own, shorted, ret, queue, owed, failures>>
  BY DEF CallBuffers, portVars, mmalVars, seenVars
<1>7. RunsMarked' /\ InProgress' /\ EnabledOn' /\ Headers' /\ NeverShort'
  BY <1>5, <1>6, OmxSame
<1>8. QuietIdle' /\ NotifyDone'
  BY <1>4, <1>6, OmxQuietSame DEF Quiet
<1>9. ClientAsked'
  <2>1. /\ what = "allocate" => "check allocated" \in actions[1] /\ buffers[1] < BufferNum
        /\ what = "free" => "check deallocated" \in actions[1] /\ own[1] > 0
    BY <1>1 DEF CallBuffers
  <2>2. /\ own[1] \in Nat /\ held[1] \in Nat /\ buffers[1] \in Nat /\ own[1] + held[1] = buffers[1]
        /\ populated[1] => buffers[1] = BufferNum
    BY OnePort DEF OmxInv, OmxTypes, Headers
  <2>3. own[1] > 0 => buffers[1] > 0
    BY <2>2
  <2>4. buffers[1] < BufferNum => ~populated[1]
    BY <2>2
  <2> QED
    BY <1>2, <1>6, <2>1, <2>3, <2>4 DEF ClientAsked
<1>10. OwedLeft'
  BY <1>4, <1>6, BusyLess, OwedKept DEF OmxInv
<1>11. OmxTypes'
  BY <1>6 DEF OmxInv, OmxTypes
<1> QED
  BY <1>2, <1>7, <1>8, <1>9, <1>10, <1>11 DEF OmxInv

LEMMA OmxSignal ==
  ASSUME OmxAssumption, OmxInv, Signal
  PROVE  OmxInv'
<1>1. "client" \in Threads /\ View("client").at = "post"
  BY TopIsView DEF Signal, OmxInv, Threads
<1>2. /\ Stacks' /\ OtherViews("client")
      /\ View("client")'.at \in {"idle", "post"} /\ Call' \in {"idle", "post"}
  BY <1>1, ClientEnds DEF OmxInv, Signal
<1>3. View("cmd")' = View("cmd")
  BY <1>2 DEF OtherViews, Threads
<1>4. /\ UNCHANGED <<state, transition, portVars, on, pool, held, own, shorted, ret, queue, owed>>
      /\ failures' = failures
  BY DEF Signal, mmalVars, seenVars
<1>5. failures' \in Nat
  BY <1>4 DEF OmxInv, OmxTypes
<1>6. Quiet' => Quiet
  BY <1>3 DEF Quiet
<1> QED
  BY <1>1, <1>2, <1>3, <1>4, <1>5, <1>6, OmxMoved

LEMMA OmxAllocateFails ==
  ASSUME OmxAssumption, OmxInv, AllocateFails
  PROVE  OmxInv'
<1>1. "client" \in Threads /\ View("client").at = "allocate"
  BY TopIsView DEF AllocateFails, OmxInv, Threads
<1>2. /\ Stacks' /\ OtherViews("client")
      /\ View("client")'.at \in {"idle", "post"} /\ Call' \in {"idle", "post"}
  BY <1>1, ClientEnds DEF OmxInv, AllocateFails
<1>3. View("cmd")' = View("cmd")
  BY <1>2 DEF OtherViews, Threads
<1>4. /\ UNCHANGED <<state, transition, portVars, on, pool, held, own, shorted, ret, queue, owed>>
      /\ failures' = failures \/ failures' = failures + 1
  BY DEF AllocateFails, mmalVars, seenVars
<1>5. failures' \in Nat /\ (failures' = 0 => failures = 0)
  BY <1>4 DEF OmxInv, OmxTypes
<1>6. Quiet' => Quiet
  BY <1>3 DEF Quiet
<1> QED
  BY <1>1, <1>2, <1>3, <1>4, <1>5, <1>6, OmxMoved

LEMMA OmxSendCommand ==
  ASSUME OmxAssumption, OmxInv, NEW c \in Commands, SendCommand(c)
  PROVE  OmxInv'
<1>1. "client" \in Threads /\ View("client").at = "idle"
  BY DEF SendCommand, View, Nowhere, Frame, Threads
<1>2. Stacks' /\ OtherViews("client") /\ View("client")'.at = "post" /\ Call' = "post"
  BY ClientPosts DEF OmxInv, SendCommand
<1>3. View("cmd")' = View("cmd")
  BY <1>2 DEF OtherViews, Threads
<1>4. \A u \in Threads : Todo(u)' = Todo(u) /\ Did(u)' = Did(u)
  BY <1>1, <1>2 DEF Todo, Did, OtherViews
<1>5. UNCHANGED <<state, transition, enabled, actions, buffers, populated, transit, on, pool, held,
                  own, shorted, ret, failures>>
  BY DEF SendCommand, portVars, mmalVars
<1>6. RunsMarked' /\ InProgress' /\ EnabledOn' /\ Headers' /\ NeverShort'
  BY <1>4, <1>5, OmxSame
<1>7. QuietIdle' /\ NotifyDone'
  BY <1>3, <1>5, OmxQuietSame DEF Quiet
<1>8. ClientAsked'
  BY <1>2 DEF ClientAsked
<1>9. OwedLeft'
  BY <1>3, <1>5, BusyLess, OwedSent DEF OmxInv, SendCommand
<1>10. queue' \in Seq(Commands)
  BY Longer DEF OmxInv, OmxTypes, SendCommand
<1>11. owed' \in [Answers -> Nat]
  <2>1. \A a \in Answers : owed[a] \in Nat
    BY DEF OmxInv, OmxTypes
  <2>2. \A a \in Answers : owed[a] + (IF a \in Owes(c) THEN 1 ELSE 0) \in Nat
    BY <2>1
  <2> QED
    BY <2>2 DEF SendCommand
<1>12. OmxTypes'
  BY <1>5, <1>10, <1>11 DEF OmxInv, OmxTypes
<1> QED
  BY <1>2, <1>6, <1>7, <1>8, <1>9, <1>12 DEF OmxInv

\* With no actions no thread carries one out, and the client waits for none.
LEMMA NothingRuns ==
  ASSUME OmxInv, actions[1] = {}
  PROVE  /\ \A t \in Threads : Todo(t) = {} /\ Did(t) = {}
         /\ ~EnablePending /\ ~DisablePending /\ Call \notin {"allocate", "free"}
<1>1. \A t \in Threads : Did(t) = {}
  BY DEF OmxInv, RunsMarked
<1>2. \A t \in Threads : Todo(t) = {}
  BY <1>1 DEF OmxInv, RunsMarked
<1>3. ~EnablePending /\ ~DisablePending
  BY <1>2 DEF EnablePending, DisablePending
<1>4. Call \notin {"allocate", "free"}
  BY DEF OmxInv, ClientAsked
<1> QED
  BY <1>1, <1>2, <1>3, <1>4

\* Only the command thread takes commands.
LEMMA CmdAlone ==
  ASSUME OmxInv, NEW t \in Threads, NEW place \in {"notify", "next", "state set", "ports"},
         At(t, place)
  PROVE  t = "cmd" /\ View("cmd").at = place /\ Top("cmd") = View("cmd")
<1>1. View(t).at = place
  BY TopIsView DEF OmxInv
<1>2. t = "cmd"
  BY <1>1, ClientViews DEF OmxInv, CheckStates, Threads
<1> QED
  BY <1>1, <1>2, TopView

LEMMA AskedOne == ASSUME NEW t, NEW x, Top(t).did = {x} PROVE Asked(t) = x
  BY DEF Asked

LEMMA OmxLeft ==
  ASSUME OmxAssumption, OmxInv, NEW t \in Threads, Left(t),
         ~(t = "cmd" /\ actions[1] = {} /\ transition # NoTransition)
  PROVE  OmxInv'
<1>1. View(t).at = "left" /\ Top(t) = View(t) /\ View(t).at \in CheckStates
  BY AtCheck DEF Left, CheckStates
<1>2. (\A p \in Ports : actions[p] = {}) <=> actions[1] = {}
  BY OnePort
<1>3. CASE t = "client"
  <2>1. actions[1] # {} /\ Call \in {"allocate", "free"}
    BY <1>1, <1>3, ClientViews DEF OmxInv, ClientAsked
  <2>2. Replace("client", <<>>) /\ UNCHANGED <<state, transition>>
    BY <1>2, <1>3, <2>1 DEF Left
  <2>3. Stacks' /\ OtherViews("client") /\ View("client")'.at = Call /\ Call' = Call
    BY <1>1, <1>3, <2>2, ClientLeaves DEF OmxInv
  <2>4. View("cmd")' = View("cmd")
    BY <2>3 DEF OtherViews, Threads
  <2>5. /\ UNCHANGED <<state, transition, portVars, on, pool, held, own, shorted, ret, queue, owed>>
        /\ failures' = failures
    BY <2>2 DEF Left, mmalVars, seenVars
  <2>6. failures' \in Nat /\ (Quiet' => Quiet)
    BY <2>4, <2>5 DEF OmxInv, OmxTypes, Quiet
  <2>7. View("client")'.at # "run"
    BY <2>1, <2>3
  <2> QED
    BY <1>1, <1>3, <2>3, <2>4, <2>5, <2>6, <2>7, OmxMoved
<1>4. CASE t = "cmd"
  <2>1. UNCHANGED <<state, transition>>
    BY <1>2, <1>4 DEF Left
  <2>2. /\ UNCHANGED <<state, transition, portVars, on, pool, held, own, shorted, ret, queue, owed>>
        /\ failures' = failures
    BY <2>1 DEF Left, mmalVars, seenVars
  <2>3. failures' \in Nat
    BY <2>2 DEF OmxInv, OmxTypes
  <2>4. View("cmd").at # "idle"
    BY <1>1, <1>4
  <2>5. CASE actions[1] = {}
    <3> DEFINE f == Frame("next", 0, {}, {})
    <3>1. CmdFrame(f) /\ f.at = "next"
      BY DEF CmdFrame, Frame, CheckStates
    <3>2. Replace("cmd", <<f>>)
      BY <1>2, <1>4, <2>5 DEF Left
    <3> HIDE DEF f
    <3>3. Stacks' /\ View("cmd")' = f /\ OtherViews("cmd") /\ Call' = Call
      BY <2>4, <3>1, <3>2, CmdTurns DEF OmxInv
    <3>4. transition = NoTransition
      BY <1>4, <2>5
    <3> QED
      BY <1>1, <1>4, <2>2, <2>3, <2>5, <3>1, <3>3, <3>4, OmxMoved
  <2>6. CASE actions[1] # {}
    <3>1. Replace("cmd", <<>>)
      BY <1>2, <1>4, <2>6 DEF Left
    <3>2. Stacks' /\ Inert(View("cmd")') /\ OtherViews("cmd") /\ Call' = Call
      BY <2>4, <3>1, CmdReturns DEF OmxInv
    <3>3. ~Quiet' /\ View("cmd")'.at # "run"
      BY <3>2 DEF Inert, Quiet
    <3>4. View("cmd")'.at \in CheckStates \cup {"idle", "next"}
          \/ (View("cmd")'.at = "ports" /\ View("cmd")'.todo = {})
      BY <3>2 DEF Inert
    <3> QED
      BY <1>1, <1>4, <2>2, <2>3, <3>2, <3>3, <3>4, OmxMoved
  <2> QED
    BY <2>5, <2>6
<1> QED
  BY <1>3, <1>4 DEF Threads

\* The transition is over.
LEMMA OmxLeaves ==
  ASSUME OmxAssumption, OmxInv, Left("cmd"), actions[1] = {}, transition # NoTransition
  PROVE  OmxInv'
<1>1. View("cmd").at = "left" /\ "cmd" \in Threads
  BY AtCheck DEF Left, CheckStates, Threads
<1>2. \A p \in Ports : actions[p] = {}
  BY OnePort
<1> DEFINE f == Frame("notify", 0, {}, {state})
<1>3. /\ state' = transition[2] /\ transition' = NoTransition /\ Replace("cmd", <<f>>)
      /\ UNCHANGED <<queue, enabled, actions, buffers, populated, transit, on, pool, held, own, ret,
                     owed, shorted, failures>>
  BY <1>2 DEF Left, portVars, mmalVars, seenVars
<1>4. transition \in Transitions /\ transition[1] = state /\ state \in States
  BY DEF OmxInv, OmxTypes
<1>5. f.at = "notify" /\ f.did = {state} /\ CmdFrame(f)
  BY <1>4 DEF Frame, CmdFrame, CheckStates
<1> HIDE DEF f
<1>6. Stacks' /\ View("cmd")' = f /\ OtherViews("cmd") /\ Call' = Call
  BY <1>1, <1>3, <1>5, CmdTurns DEF OmxInv
<1>7. \A u \in Threads : Todo(u)' = Todo(u) /\ Did(u)' = Did(u)
  BY <1>1, <1>5, <1>6 DEF Todo, Did, OtherViews
<1>8. /\ \A u \in Threads : Todo(u) = {} /\ Did(u) = {}
      /\ ~EnablePending /\ ~DisablePending /\ Call \notin {"allocate", "free"}
  BY NothingRuns
<1>9. OmxTypes'
  <2>1. state' \in States
    BY <1>3, <1>4 DEF Transitions, States
  <2> QED
    BY <1>3, <2>1 DEF OmxInv, OmxTypes
<1>10. ClientAsked' /\ QuietIdle' /\ RunsMarked' /\ Headers' /\ NeverShort'
  <2>1. ClientAsked' /\ QuietIdle'
    BY <1>3, <1>6, <1>8 DEF ClientAsked, QuietIdle
  <2>2. RunsMarked'
    BY <1>3, <1>7, RunsSame
  <2>3. Headers' /\ NeverShort'
    BY <1>3 DEF OmxInv, Headers, NeverShort
  <2> QED
    BY <2>1, <2>2, <2>3
<1>11. ~Enabling' /\ ~Disabling' /\ ~Flushing' /\ actions'[1] = {}
  BY <1>3 DEF Enabling, Disabling, Flushing, NoTransition
<1>12. InProgress'
  BY <1>3, <1>11 DEF InProgress
<1>13. failures = 0 /\ enabled[1] /\ state' \notin Unloaded => on[1]
  <2>1. CASE transition[2] = "Idle" /\ transition[1] \in Unloaded
    BY <1>8, <2>1 DEF OmxInv, InProgress, Enabling
  <2>2. CASE ~(transition[2] = "Idle" /\ transition[1] \in Unloaded) /\ state' \notin Unloaded
    <3>1. state \notin Unloaded /\ transition # <<"Idle", "Loaded">>
      BY <1>3, <1>4, <2>2 DEF Transitions, Unloaded
    <3> QED
      BY <1>8, <3>1 DEF OmxInv, EnabledOn
  <2> QED
    BY <2>1, <2>2
<1>14. EnabledOn'
  BY <1>3, <1>13 DEF EnabledOn
<1>15. ASSUME enabled[1]
       PROVE  /\ transition = <<"Idle", "Loaded">> => buffers[1] = 0 /\ ~on[1]
              /\ transition = <<"Loaded", "Idle">> => populated[1] /\ (failures = 0 => on[1])
              /\ transition = <<"Executing", "Idle">> => transit[1] = 0
  <2>1. CASE transition = <<"Idle", "Loaded">>
    BY <1>8, <1>15, <2>1 DEF OmxInv, InProgress, Disabling
  <2>2. CASE transition = <<"Loaded", "Idle">>
    <3>1. transition[2] = "Idle" /\ transition[1] \in Unloaded
      BY <2>2 DEF Unloaded
    <3>2. Enabling
      BY <1>15, <3>1 DEF Enabling
    <3>3. populated[1] /\ (failures = 0 => on[1])
      BY <1>8, <3>2 DEF OmxInv, InProgress
    <3> QED
      BY <2>2, <3>3
  <2>3. CASE transition = <<"Executing", "Idle">>
    BY <1>15, <2>3 DEF OmxInv, InProgress, Flushing
  <2> QED
    BY <2>1, <2>2, <2>3
<1>16. NotifyDone'
  <2>1. SUFFICES ASSUME enabled[1]
        PROVE  /\ state' = "Loaded" /\ state = "Idle" => buffers[1] = 0 /\ ~on[1]
               /\ state' = "Idle" /\ state = "Loaded" => populated[1] /\ (failures = 0 => on[1])
               /\ state' = "Idle" /\ state = "Executing" => transit[1] = 0
    BY <1>3, <1>5, <1>6 DEF NotifyDone
  <2>2. transition = <<state, state'>>
    BY <1>3, <1>4 DEF Transitions
  <2> QED
    BY <1>15, <2>1, <2>2
<1>17. \A a \in Answers : Busy(a)' => Busy(a)
  BY <1>3, <1>5, <1>6 DEF Busy
<1>18. OwedLeft'
  BY <1>3, <1>17, OwedKept DEF OmxInv
<1> QED
  BY <1>6, <1>9, <1>10, <1>12, <1>14, <1>16, <1>18 DEF OmxInv

\* A command is answered with nothing left of it: nothing else changes.
LEMMA OmxAnswered ==
  ASSUME OmxInv, Stacks', OtherViews("cmd"), View("cmd").at # "run", Call' = Call, Quiet,
         View("cmd")'.at \in {"idle", "next"} \/ (View("cmd")'.at = "ports" /\ View("cmd")'.todo = {}),
         UNCHANGED <<state, transition, queue, actions, buffers, populated, transit, on, pool, held,
                     own, ret>>,
         NEW b \in Answers, Busy(b), NEW ok, NEW from, Answer(b, ok, from),
         enabled' \in [Ports -> BOOLEAN], enabled' = enabled \/ state \in Unloaded,
         failures' \in Nat, failures' = 0 => failures = 0
  PROVE  OmxInv'
<1>1. actions[1] = {} /\ transition = NoTransition
  BY DEF OmxInv, QuietIdle
<1>2. "cmd" \in Threads /\ View("cmd")'.at # "run"
  BY DEF Threads
<1>3. \A u \in Threads : Todo(u)' = Todo(u) /\ Did(u)' = Did(u)
  BY <1>2 DEF Todo, Did, OtherViews
<1>4. shorted' = shorted
  BY DEF Answer
<1>5. RunsMarked' /\ ClientAsked' /\ QuietIdle' /\ Headers' /\ NeverShort'
  <2>1. RunsMarked'
    BY <1>3, RunsSame
  <2>2. ClientAsked' /\ QuietIdle'
    BY <1>1 DEF OmxInv, ClientAsked, QuietIdle
  <2>3. Headers' /\ NeverShort'
    BY <1>4 DEF OmxInv, Headers, NeverShort
  <2> QED
    BY <2>1, <2>2, <2>3
<1>6. InProgress'
  BY <1>1 DEF InProgress, Enabling, Disabling, Flushing, NoTransition
<1>7. EnabledOn'
  <2>1. CASE enabled' = enabled
    <3>1. EnablePending' <=> EnablePending
      BY <1>3 DEF EnablePending
    <3> QED
      BY <2>1, <3>1 DEF OmxInv, EnabledOn
  <2>2. CASE state \in Unloaded
    BY <2>2 DEF EnabledOn
  <2> QED
    BY <2>1, <2>2
<1>8. NotifyDone'
  BY DEF NotifyDone
<1>9. \A a \in Answers : ~Busy(a)'
  BY <1>1 DEF Busy
<1>10. OwedLeft' /\ owed' \in [Answers -> Nat]
  BY <1>9, OwedAnswered DEF OmxInv
<1>11. OmxTypes'
  BY <1>4, <1>10 DEF OmxInv, OmxTypes
<1> QED
  BY <1>5, <1>6, <1>7, <1>8, <1>10, <1>11 DEF OmxInv

LEMMA AnswerOf ==
  ASSUME OmxAssumption
  PROVE  /\ <<"State", 0>> \in Answers /\ \A k \in DOMAIN Notify : <<k, 1>> \in Answers
         /\ \A a \in Answers : a = <<"State", 0>> \/ (\E k \in DOMAIN Notify : a = <<k, 1>>)
  BY OnePort DEF Answers

LEMMA OmxNotifyState ==
  ASSUME OmxAssumption, OmxInv, NEW t \in Threads, NotifyState(t)
  PROVE  OmxInv'
<1>1. t = "cmd" /\ View("cmd").at = "notify"
  BY CmdAlone DEF NotifyState
<1> DEFINE f == Frame("next", 0, {}, {})
<1>2. CmdFrame(f) /\ f.at = "next"
  BY DEF CmdFrame, Frame, CheckStates
<1>3. Replace("cmd", <<f>>)
  BY <1>1 DEF NotifyState
<1> HIDE DEF f
<1>4. Stacks' /\ View("cmd")' = f /\ OtherViews("cmd") /\ Call' = Call
  BY <1>1, <1>2, <1>3, CmdTurns DEF OmxInv
<1>5. UNCHANGED <<state, transition, queue, enabled, actions, buffers, populated, transit, on, pool,
                  held, own, ret, failures>>
  BY DEF NotifyState, portVars, mmalVars
<1>6. Quiet /\ Busy(<<"State", 0>>) /\ <<"State", 0>> \in Answers
  BY <1>1, AnswerOf DEF Quiet, Busy
<1>7. enabled' \in [Ports -> BOOLEAN] /\ failures' \in Nat
  BY <1>5 DEF OmxInv, OmxTypes
<1> QED
  BY <1>1, <1>2, <1>4, <1>5, <1>6, <1>7, OmxAnswered DEF NotifyState

LEMMA OmxStateSetFails ==
  ASSUME OmxAssumption, OmxInv, NEW t \in Threads, StateSetFails(t)
  PROVE  OmxInv'
<1>1. t = "cmd" /\ View("cmd").at = "state set"
  BY CmdAlone DEF StateSetFails
<1>2. Replace("cmd", <<>>)
  BY <1>1 DEF StateSetFails
<1>3. Stacks' /\ Inert(View("cmd")') /\ OtherViews("cmd") /\ Call' = Call
  BY <1>1, <1>2, CmdReturns DEF OmxInv
<1>4. UNCHANGED <<state, transition, queue, enabled, actions, buffers, populated, transit, on, pool,
                  held, own, ret>>
  BY DEF StateSetFails, portVars, mmalVars
<1>5. Quiet /\ Busy(<<"State", 0>>) /\ <<"State", 0>> \in Answers
  BY <1>1, AnswerOf DEF Quiet, Busy
<1>6. failures' = failures \/ failures' = failures + 1
  BY DEF StateSetFails
<1>7. enabled' \in [Ports -> BOOLEAN] /\ failures' \in Nat /\ (failures' = 0 => failures = 0)
  BY <1>4, <1>6 DEF OmxInv, OmxTypes
<1>8. View("cmd")'.at \in {"idle", "next"} \/ (View("cmd")'.at = "ports" /\ View("cmd")'.todo = {})
  BY <1>3 DEF Inert
<1> QED
  BY <1>1, <1>3, <1>4, <1>5, <1>7, <1>8, OmxAnswered DEF StateSetFails

LEMMA OmxActionsNext ==
  ASSUME OmxAssumption, OmxInv, NEW t \in Threads, ActionsNext(t)
  PROVE  OmxInv'
<1>1. t = "cmd" /\ View("cmd").at = "next" /\ "cmd" \in Threads
  BY CmdAlone DEF ActionsNext, Threads
<1>2. /\ UNCHANGED <<state, transition, portVars, on, pool, held, own, shorted, ret, owed>>
      /\ UNCHANGED <<enabled, actions, buffers, populated, transit, failures>>
  BY DEF ActionsNext, mmalVars, seenVars, portVars
<1>3. failures' \in Nat /\ Quiet /\ actions[1] = {} /\ transition = NoTransition
  BY <1>1, <1>2 DEF OmxInv, OmxTypes, QuietIdle, Quiet
<1>4. CASE queue = <<>>
  <2>1. Replace("cmd", <<>>) /\ queue' = queue
    BY <1>1, <1>4 DEF ActionsNext
  <2>2. Stacks' /\ Inert(View("cmd")') /\ OtherViews("cmd") /\ Call' = Call
    BY <1>1, <2>1, CmdReturns DEF OmxInv
  <2>3. View("cmd")'.at # "run"
    BY <2>2 DEF Inert
  <2>4. View("cmd")'.at \in CheckStates \cup {"idle", "next"}
        \/ (View("cmd")'.at = "ports" /\ View("cmd")'.todo = {})
    BY <2>2 DEF Inert
  <2> QED
    BY <1>1, <1>2, <1>3, <2>1, <2>2, <2>3, <2>4, OmxMoved
<1>5. CASE queue # <<>>
  <2> DEFINE c == Head(queue)
  <2>1. c \in Commands /\ queue' = Tail(queue) /\ queue' \in Seq(Commands)
    <3>1. queue \in Seq(Commands)
      BY DEF OmxInv, OmxTypes
    <3>2. Head(queue) \in Commands /\ Tail(queue) \in Seq(Commands)
      BY <1>5, <3>1, Shorter
    <3>3. queue' = Tail(queue)
      BY <1>5 DEF ActionsNext
    <3> QED
      BY <3>2, <3>3
  <2> DEFINE f == IF c.kind = "State" THEN Frame("state set", 0, {}, {c.to})
                                      ELSE Frame("ports", 0, c.ports, {c.kind})
  <2>2. Replace("cmd", <<f>>)
    <3>1. CASE c.kind = "State"
      BY <1>1, <1>5, <3>1 DEF ActionsNext
    <3>2. CASE c.kind # "State"
      BY <1>1, <1>5, <3>2 DEF ActionsNext
    <3> QED
      BY <3>1, <3>2
  <2> HIDE DEF c
  <2>3. \/ c.kind = "State" /\ c.to \in Targets
        \/ c.kind \in DOMAIN Notify /\ c.ports = {1}
    BY <2>1, OnePort DEF Commands
  <2>4. /\ c.kind = "State" => f.at = "state set" /\ f.did = {c.to}
        /\ c.kind # "State" => f.at = "ports" /\ f.todo = {1} /\ f.did = {c.kind}
    BY <2>3 DEF Frame
  <2>5. "State" \notin DOMAIN Notify
    BY DEF Notify
  <2>6. CmdFrame(f) /\ f.at \in {"state set", "ports"}
    <3> HIDE DEF f
    <3>1. CASE c.kind = "State"
      BY <2>3, <2>4, <2>5, <3>1 DEF CmdFrame, CheckStates
    <3>2. CASE c.kind # "State"
      BY <2>3, <2>4, <3>2, OnePort DEF CmdFrame, CheckStates
    <3> QED
      BY <3>1, <3>2
  <2> HIDE DEF f
  <2>7. Stacks' /\ View("cmd")' = f /\ OtherViews("cmd") /\ Call' = Call
    BY <1>1, <2>2, <2>6, CmdTurns DEF OmxInv
  <2>8. \A u \in Threads : Todo(u)' = Todo(u) /\ Did(u)' = Did(u)
    BY <1>1, <2>6, <2>7 DEF Todo, Did, OtherViews
  <2>9. RunsMarked' /\ InProgress' /\ EnabledOn' /\ Headers' /\ NeverShort'
    BY <1>2, <2>8, OmxSame
  <2>10. QuietIdle' /\ NotifyDone'
    BY <1>2, <1>3, <2>6, <2>7 DEF QuietIdle, NotifyDone
  <2>11. ClientAsked'
    BY <1>2, <2>7 DEF OmxInv, ClientAsked
  <2>12. ASSUME NEW a \in Answers PROVE ~Busy(a) /\ (Busy(a)' => a \in Owes(c))
    <3>1. ~Busy(a)
      BY <1>1, <1>3 DEF Busy
    <3>2. ASSUME Busy(a)' PROVE a \in Owes(c)
      <4>1. CASE a = <<"State", 0>>
        <5>1. View("cmd")'.at \in {"notify", "state set"}
          BY <1>2, <1>3, <2>5, <3>2, <4>1 DEF Busy
        <5>2. c.kind = "State"
          BY <2>4, <2>7, <5>1
        <5> QED
          BY <4>1, <5>2 DEF Owes
      <4>2. ASSUME NEW k \in DOMAIN Notify, a = <<k, 1>> PROVE a \in Owes(c)
        <5>1. View("cmd")'.at = "ports" /\ View("cmd")'.did = {k}
          BY <1>2, <1>3, <2>5, <3>2, <4>2 DEF Busy
        <5>2. c.kind = k
          BY <2>4, <2>7, <5>1
        <5>3. Owes(c) = {<<c.kind, p>> : p \in c.ports} /\ 1 \in c.ports
          BY <2>3, <2>5, <5>2 DEF Owes
        <5> QED
          BY <4>2, <5>2, <5>3
      <4> QED
        BY <4>1, <4>2, AnswerOf
    <3> QED
      BY <3>1, <3>2
  <2>13. OwedLeft'
    BY <1>2, <1>5, <2>1, <2>12, OwedTaken DEF OmxInv, c
  <2>14. OmxTypes'
    BY <1>2, <2>1 DEF OmxInv, OmxTypes
  <2> QED
    BY <2>7, <2>9, <2>10, <2>11, <2>13, <2>14 DEF OmxInv
<1> QED
  BY <1>4, <1>5

LEMMA OmxStateSet ==
  ASSUME OmxAssumption, OmxInv, NEW t \in Threads, StateSet(t)
  PROVE  OmxInv'
<1>1. t = "cmd" /\ View("cmd").at = "state set" /\ "cmd" \in Threads /\ Quiet
  BY CmdAlone DEF StateSet, Threads, Quiet
<1> DEFINE tr == <<state, Asked(t)>>
<1>2. /\ tr \in Transitions /\ transition' = tr /\ tr[1] = state
      /\ actions' = [p \in Ports |-> IF enabled[p] THEN TransitionActions(tr) ELSE actions[p]]
  BY DEF StateSet
<1>3. /\ UNCHANGED <<state, queue, enabled, buffers, populated, transit, on, pool, held, own, ret,
                     owed, shorted, failures>>
  BY DEF StateSet, mmalVars, seenVars
<1> HIDE DEF tr
<1>4. actions[1] = {} /\ transition = NoTransition
  BY <1>1 DEF OmxInv, QuietIdle
<1>5. actions'[1] = IF enabled[1] THEN TransitionActions(tr) ELSE {}
  BY <1>2, <1>4, OnePort
<1>6. /\ \A u \in Threads : Todo(u) = {} /\ Did(u) = {}
      /\ ~EnablePending /\ ~DisablePending /\ Call \notin {"allocate", "free"}
  BY <1>4, NothingRuns
<1> DEFINE f == Check
<1>7. CmdFrame(f) /\ f.at = "take"
  BY DEF CmdFrame, Check, Frame, CheckStates
<1>8. Replace("cmd", <<f>>)
  BY <1>1 DEF StateSet
<1> HIDE DEF f
<1>9. Stacks' /\ View("cmd")' = f /\ OtherViews("cmd") /\ Call' = Call
  BY <1>1, <1>7, <1>8, CmdTurns DEF OmxInv
<1>10. \A u \in Threads : Todo(u)' = {} /\ Did(u)' = {}
  BY <1>1, <1>6, <1>7, <1>9 DEF Todo, Did, OtherViews
<1>11. TransitionActions(tr) \subseteq {"check allocated", "check deallocated", "enable", "disable",
                                        "flush", "check flushed"}
  BY DEF TransitionActions
<1>12. OmxTypes'
  <2>1. actions' = [p \in Ports |-> actions'[p]]
    BY <1>2
  <2>2. transition' \in Transitions /\ transition'[1] = state'
    BY <1>2, <1>3
  <2> QED
    BY <1>3, <2>1, <2>2 DEF OmxInv, OmxTypes
<1>13. ClientAsked' /\ Headers' /\ NeverShort'
  BY <1>3, <1>6, <1>9 DEF OmxInv, ClientAsked, Headers, NeverShort
<1>14. ~Quiet' /\ QuietIdle' /\ NotifyDone'
  BY <1>7, <1>9 DEF Quiet, QuietIdle, NotifyDone
<1>15. RunsMarked'
  <2>1. \A a \in DOMAIN Pending : Pending[a] \notin actions'[1]
    BY <1>5, <1>11, Names DEF Pendings
  <2> QED
    BY <1>10, <2>1 DEF RunsMarked, Threads
<1>16. /\ \A k \in DOMAIN Notify : Notify[k] \notin actions'[1]
       /\ "notify enable" \notin actions'[1] /\ "notify disable" \notin actions'[1]
       /\ "notify flush" \notin actions'[1]
  BY <1>5, <1>11, Names
<1>17. InProgress'
  <2>1. /\ Enabling' <=> (enabled[1] /\ tr[2] = "Idle" /\ tr[1] \in Unloaded)
        /\ Disabling' <=> (enabled[1] /\ tr = <<"Idle", "Loaded">>)
        /\ Flushing' <=> (enabled[1] /\ tr = <<"Executing", "Idle">>)
    BY <1>2, <1>3, <1>16 DEF Enabling, Disabling, Flushing
  <2>2. Enabling \in BOOLEAN
    BY DEF Enabling
  <2>3. CASE ~enabled[1]
    BY <1>5, <1>16, <2>1, <2>3 DEF InProgress, Notify
  <2>4. CASE enabled[1] /\ tr[2] = "Idle" /\ tr[1] \in Unloaded
    <3>1. TransitionActions(tr) = {"check allocated", "enable"}
      <4>1. tr = <<"Loaded", "Idle">> \/ tr = <<"WaitForResources", "Idle">>
        BY <1>2, <2>4 DEF Transitions, Unloaded
      <4>2. CASE tr = <<"Loaded", "Idle">>
        <5>1. TransitionActions(<<"Loaded", "Idle">>) = {"check allocated", "enable"}
          BY DEF TransitionActions
        <5> QED
          BY <4>2, <5>1
      <4>3. CASE tr = <<"WaitForResources", "Idle">>
        <5>1. TransitionActions(<<"WaitForResources", "Idle">>) = {"check allocated", "enable"}
          BY DEF TransitionActions
        <5> QED
          BY <4>3, <5>1
      <4> QED
        BY <4>1, <4>2, <4>3
    <3>2. ~Disabling' /\ ~Flushing'
      BY <2>1, <2>4 DEF Unloaded
    <3>3. EnablePending'
      BY <1>5, <2>4, <3>1 DEF EnablePending
    <3> QED
      BY <1>5, <1>16, <2>1, <2>4, <3>1, <3>2, <3>3 DEF InProgress, Notify
  <2>5. CASE enabled[1] /\ tr = <<"Idle", "Loaded">>
    <3>1. TransitionActions(tr) = {"check deallocated", "disable", "flush", "check flushed"}
      BY <2>5 DEF TransitionActions
    <3>2. ~Enabling' /\ ~Flushing'
      BY <2>1, <2>5 DEF Unloaded
    <3>3. DisablePending'
      BY <1>5, <2>5, <3>1 DEF DisablePending
    <3> QED
      BY <1>5, <1>16, <2>1, <2>5, <3>1, <3>2, <3>3 DEF InProgress, Notify
  <2>6. CASE enabled[1] /\ tr = <<"Executing", "Idle">>
    <3>1. TransitionActions(tr) = {"flush", "check flushed"}
      BY <2>6 DEF TransitionActions
    <3>2. ~Enabling' /\ ~Disabling'
      BY <2>1, <2>6 DEF Unloaded
    <3> QED
      BY <1>5, <1>16, <2>1, <2>6, <3>1, <3>2 DEF InProgress, Notify
  <2>7. CASE /\ ~(tr[2] = "Idle" /\ tr[1] \in Unloaded)
             /\ tr # <<"Idle", "Loaded">> /\ tr # <<"Executing", "Idle">>
    <3>1. TransitionActions(tr) = {}
      BY <2>7 DEF TransitionActions, Unloaded
    <3>2. actions'[1] = {}
      BY <1>5, <3>1
    <3> QED
      BY <1>16, <2>1, <2>7, <3>2 DEF InProgress, Notify
  <2> QED
    BY <2>3, <2>4, <2>5, <2>6, <2>7
<1>18. EnabledOn'
  BY <1>3, <1>4, <1>6 DEF OmxInv, EnabledOn, NoTransition
<1>19. ASSUME NEW a \in Answers, Busy(a)' PROVE Busy(a)
  <2>1. ~\E k \in DOMAIN Notify : a = <<k, 1>>
    <3>1. ASSUME NEW k \in DOMAIN Notify, a = <<k, 1>> PROVE FALSE
      <4>1. a[1] = k /\ k # "State"
        BY <3>1, Names
      <4>2. View("cmd")'.at # "ports" /\ Notify[k] \notin actions'[1]
        BY <1>7, <1>9, <1>16
      <4> QED
        BY <1>19, <4>1, <4>2 DEF Busy
    <3> QED
      BY <3>1
  <2>2. a = <<"State", 0>>
    BY <2>1, AnswerOf
  <2> QED
    BY <1>1, <2>2 DEF Busy
<1>20. OwedLeft'
  BY <1>3, <1>19, OwedKept DEF OmxInv
<1> QED
  BY <1>9, <1>12, <1>13, <1>14, <1>15, <1>17, <1>18, <1>20 DEF OmxInv

\* A command to the port, by its kind.
LEMMA PortAsked ==
  ASSUME OmxAssumption, OmxInv, NEW t \in Threads, PortCommand(t)
  PROVE  /\ t = "cmd" /\ View("cmd").at = "ports" /\ View("cmd").todo = {1}
         /\ Asked("cmd") \in DOMAIN Notify /\ View("cmd").did = {Asked("cmd")}
         /\ Top("cmd") = View("cmd")
         /\ (CHOOSE q \in View("cmd").todo : \A r \in View("cmd").todo : q <= r) = 1
         /\ View("cmd").todo \ {1} = {}
<1>1. t = "cmd" /\ View("cmd").at = "ports" /\ Top("cmd") = View("cmd")
  BY CmdAlone DEF PortCommand
<1>2. View("cmd").todo # {} /\ View("cmd").todo \subseteq {1}
  BY <1>1, OnePort DEF PortCommand, OmxInv, Stacks, CmdShape, CmdFrame
<1>3. View("cmd").todo = {1}
  BY <1>2
<1>4. PICK k \in DOMAIN Notify : View("cmd").did = {k}
  BY <1>1 DEF OmxInv, Stacks, CmdShape, CmdFrame
<1>5. Asked("cmd") = k
  BY <1>1, <1>4, AskedOne
<1> DEFINE T == View("cmd").todo
<1>6. T = {1}
  BY <1>3
<1> HIDE DEF T
<1>7. (CHOOSE q \in T : \A r \in T : q <= r) = 1
  BY <1>6
<1> QED
  BY <1>1, <1>3, <1>4, <1>5, <1>6, <1>7 DEF T

LEMMA OmxPortCommand ==
  ASSUME OmxAssumption, OmxInv, NEW t \in Threads, PortCommand(t)
  PROVE  OmxInv'
<1> DEFINE k == Asked("cmd")
           rest == Frame("ports", 0, {}, {k})
<1>1. /\ t = "cmd" /\ View("cmd").at = "ports" /\ View("cmd").todo = {1}
      /\ k \in DOMAIN Notify /\ View("cmd").did = {k}
      /\ "cmd" \in Threads /\ Quiet
  BY PortAsked DEF Threads, Quiet
<1>2. /\ enabled' = [enabled EXCEPT ![1] = IF k = "Flush" THEN @ ELSE k = "Enable"]
      /\ IF k # "Flush" /\ state \in Unloaded
         THEN Answer(<<k, 1>>, TRUE, state) /\ Replace("cmd", <<rest>>) /\ UNCHANGED actions
         ELSE /\ actions' = [actions EXCEPT ![1] = PortActions[k] \cup {Notify[k]}]
              /\ Replace("cmd", <<Check, rest>>) /\ UNCHANGED seenVars
      /\ UNCHANGED <<state, transition, queue, buffers, populated, transit, on, pool, held, own, ret,
                     failures>>
  <2>1. /\ t = "cmd" /\ Top("cmd") = View("cmd")
        /\ (CHOOSE q \in View("cmd").todo : \A r \in View("cmd").todo : q <= r) = 1
        /\ View("cmd").todo \ {1} = {}
    BY PortAsked
  <2> DEFINE T == Top("cmd").todo
             p == CHOOSE q \in T : \A r \in T : q <= r
             others == Frame("ports", 0, T \ {p}, {k})
  <2>2. p = 1 /\ T \ {p} = {} /\ others = rest
    BY <2>1
  <2>3. /\ enabled' = [enabled EXCEPT ![p] = IF k = "Flush" THEN @ ELSE k = "Enable"]
        /\ IF k # "Flush" /\ state \in Unloaded
           THEN Answer(<<k, p>>, TRUE, state) /\ Replace("cmd", <<others>>) /\ UNCHANGED actions
           ELSE /\ actions' = [actions EXCEPT ![p] = PortActions[k] \cup {Notify[k]}]
                /\ Replace("cmd", <<Check, others>>) /\ UNCHANGED seenVars
        /\ UNCHANGED <<state, transition, queue, buffers, populated, transit, mmalVars, own, ret,
                       failures>>
    <3>1. PortCommand("cmd")
      BY <2>1
    <3>2. UNCHANGED <<state, transition, queue, sema, buffers, populated, transit, mmalVars, own, ret,
                      commands, failures>>
      BY <3>1 DEF PortCommand
    <3>3. enabled' = [enabled EXCEPT ![p] = IF k = "Flush" THEN @ ELSE k = "Enable"]
      BY <3>1 DEF PortCommand
    <3>4. IF k # "Flush" /\ state \in Unloaded
           THEN Answer(<<k, p>>, TRUE, state) /\ Replace("cmd", <<others>>) /\ UNCHANGED actions
           ELSE /\ actions' = [actions EXCEPT ![p] = PortActions[k] \cup {Notify[k]}]
                /\ Replace("cmd", <<Check, others>>) /\ UNCHANGED seenVars
      BY <3>1 DEF PortCommand
    <3> QED
      BY <3>2, <3>3, <3>4
  <2> HIDE DEF p, others, rest, k
  <2> QED
    BY <2>2, <2>3 DEF mmalVars
<1>3. actions[1] = {} /\ transition = NoTransition
  BY <1>1 DEF OmxInv, QuietIdle
<1>4. enabled' \in [Ports -> BOOLEAN] /\ failures' \in Nat /\ (failures' = 0 => failures = 0)
  BY <1>2 DEF OmxInv, OmxTypes
<1> HIDE DEF k
<1>5. rest.at = "ports" /\ rest.todo = {} /\ rest.did = {k} /\ RestFrame(rest) /\ CmdFrame(rest)
  BY <1>1 DEF Frame, RestFrame, CmdFrame, CheckStates
<1> HIDE DEF rest
<1>6. CASE k # "Flush" /\ state \in Unloaded
  <2>1. Answer(<<k, 1>>, TRUE, state) /\ Replace("cmd", <<rest>>) /\ UNCHANGED actions
    BY <1>2, <1>6
  <2>2. Stacks' /\ View("cmd")' = rest /\ OtherViews("cmd") /\ Call' = Call
    BY <1>1, <1>5, <2>1, CmdTurns DEF OmxInv
  <2>3. <<k, 1>> \in Answers /\ Busy(<<k, 1>>)
    BY <1>1, AnswerOf DEF Busy
  <2>4. View("cmd")'.at = "ports" /\ View("cmd")'.todo = {}
    BY <1>5, <2>2
  <2>5. View("cmd").at # "run"
    BY <1>1
  <2> QED
    BY <1>1, <1>2, <1>4, <1>6, <2>1, <2>2, <2>3, <2>4, <2>5, OmxAnswered
<1>7. CASE k = "Flush" \/ state \notin Unloaded
  <2> DEFINE f == Check
  <2>1. /\ actions' = [actions EXCEPT ![1] = PortActions[k] \cup {Notify[k]}]
        /\ Replace("cmd", <<f, rest>>) /\ UNCHANGED <<owed, shorted>>
    BY <1>2, <1>7 DEF seenVars
  <2>2. CmdFrame(f) /\ f.at = "take"
    BY DEF CmdFrame, Check, Frame, CheckStates
  <2> HIDE DEF f
  <2>3. Stacks' /\ View("cmd")' = f /\ OtherViews("cmd") /\ Call' = Call
    BY <1>1, <1>5, <2>1, <2>2, CmdCalls DEF OmxInv
  <2>4. /\ \A u \in Threads : Todo(u) = {} /\ Did(u) = {}
        /\ ~EnablePending /\ ~DisablePending /\ Call \notin {"allocate", "free"}
    BY <1>3, NothingRuns
  <2>5. \A u \in Threads : Todo(u)' = {} /\ Did(u)' = {}
    BY <1>1, <2>2, <2>3, <2>4 DEF Todo, Did, OtherViews
  <2>6. actions = [p \in Ports |-> actions[p]] /\ enabled \in [Ports -> BOOLEAN] /\ 1 \in Ports
    BY OnePort DEF OmxInv, OmxTypes
  <2>7. /\ actions'[1] = PortActions[k] \cup {Notify[k]}
        /\ enabled'[1] = IF k = "Flush" THEN enabled[1] ELSE k = "Enable"
    BY <1>2, <2>1, <2>6
  <2>8. \/ k = "Flush" /\ actions'[1] = {"flush", "check flushed", "notify flush"}
        \/ k = "Enable" /\ actions'[1] = {"check allocated", "enable", "notify enable"}
        \/ k = "Disable" /\ actions'[1] = {"disable", "check deallocated", "flush", "check flushed",
                                            "notify disable"}
    <3>1. /\ PortActions["Flush"] = {"flush", "check flushed"}
          /\ PortActions["Enable"] = {"check allocated", "enable"}
          /\ PortActions["Disable"] = {"disable", "check deallocated", "flush", "check flushed"}
      BY DEF PortActions
    <3>2. k = "Flush" \/ k = "Enable" \/ k = "Disable"
      BY <1>1, Names
    <3>3. CASE k = "Flush"
      <4>1. PortActions[k] = PortActions["Flush"] /\ Notify[k] = "notify flush"
        BY <3>3, Names
      <4>2. actions'[1] = PortActions["Flush"] \cup {"notify flush"}
        BY <2>7, <4>1
      <4> QED
        BY <3>1, <3>3, <4>2
    <3>4. CASE k = "Enable"
      <4>1. PortActions[k] = PortActions["Enable"] /\ Notify[k] = "notify enable"
        BY <3>4, Names
      <4>2. actions'[1] = PortActions["Enable"] \cup {"notify enable"}
        BY <2>7, <4>1
      <4> QED
        BY <3>1, <3>4, <4>2
    <3>5. CASE k = "Disable"
      <4>1. PortActions[k] = PortActions["Disable"] /\ Notify[k] = "notify disable"
        BY <3>5, Names
      <4>2. actions'[1] = PortActions["Disable"] \cup {"notify disable"}
        BY <2>7, <4>1
      <4> QED
        BY <3>1, <3>5, <4>2
    <3> QED
      BY <3>2, <3>3, <3>4, <3>5
  <2>10. actions' = [p \in Ports |-> actions'[p]]
    BY <2>1, <2>6
  <2>11. OmxTypes'
    BY <1>2, <1>3, <1>4, <2>1, <2>10 DEF OmxInv, OmxTypes
  <2>12. ClientAsked' /\ Headers' /\ NeverShort'
    BY <1>2, <2>1, <2>3, <2>4 DEF OmxInv, ClientAsked, Headers, NeverShort
  <2>13. ~Quiet' /\ QuietIdle' /\ NotifyDone'
    BY <2>2, <2>3 DEF Quiet, QuietIdle, NotifyDone
  <2>14. RunsMarked'
    <3>1. \A a \in DOMAIN Pending : Pending[a] \notin actions'[1]
      BY <2>8, Names DEF Pendings
    <3> QED
      BY <2>5, <3>1 DEF RunsMarked, Threads
  <2>15. InProgress' /\ EnabledOn'
    <3>1. transition'[2] # "Idle" /\ transition' = NoTransition /\ transition' # <<"Idle", "Loaded">>
          /\ transition' # <<"Executing", "Idle">>
      BY <1>2, <1>3 DEF NoTransition
    <3>2. CASE k = "Enable"
      <4>1. ~Disabling' /\ ~Flushing' /\ Enabling' /\ EnablePending'
        BY <2>8, <3>1, <3>2 DEF Disabling, Flushing, Enabling, EnablePending
      <4> QED
        BY <2>8, <3>1, <3>2, <4>1 DEF InProgress, EnabledOn
    <3>3. CASE k = "Disable"
      <4>1. Disabling' /\ ~Flushing' /\ ~Enabling' /\ DisablePending'
        BY <2>8, <3>1, <3>3 DEF Disabling, Flushing, Enabling, DisablePending
      <4>2. ~enabled'[1]
        BY <2>7, <3>3
      <4> QED
        BY <2>8, <3>1, <3>3, <4>1, <4>2 DEF InProgress, EnabledOn
    <3>4. CASE k = "Flush"
      <4>1. ~Disabling' /\ Flushing' /\ ~Enabling'
        BY <2>8, <3>1, <3>4 DEF Disabling, Flushing, Enabling
      <4>2. InProgress'
        BY <2>8, <3>1, <3>4, <4>1 DEF InProgress
      <4>3. enabled'[1] = enabled[1] /\ transition # <<"Idle", "Loaded">>
        BY <1>3, <2>7, <3>4 DEF NoTransition
      <4>4. EnabledOn'
        BY <1>2, <2>4, <4>3 DEF OmxInv, EnabledOn
      <4> QED
        BY <4>2, <4>4
    <3> QED
      BY <2>8, <3>2, <3>3, <3>4
  <2>16. ASSUME NEW a \in Answers, Busy(a)' PROVE Busy(a)
    <3>1. View("cmd")'.at = "take" /\ transition' = NoTransition
      BY <1>2, <1>3, <2>2, <2>3
    <3>2. a[1] \in DOMAIN Notify /\ Notify[a[1]] \in actions'[1]
      BY <2>16, <3>1 DEF Busy
    <3>3. a[1] = k
      <4>1. CASE a[1] = "Flush"
        BY <2>8, <3>2, <4>1, Names
      <4>2. CASE a[1] = "Enable"
        BY <2>8, <3>2, <4>2, Names
      <4>3. CASE a[1] = "Disable"
        BY <2>8, <3>2, <4>3, Names
      <4> QED
        BY <3>2, <4>1, <4>2, <4>3, Names
    <3> QED
      BY <1>1, <3>3 DEF Busy
  <2>17. OwedLeft'
    BY <1>2, <2>1, <2>16, OwedKept DEF OmxInv
  <2> QED
    BY <2>3, <2>11, <2>12, <2>13, <2>14, <2>15, <2>17 DEF OmxInv
<1> QED
  BY <1>6, <1>7

\* Actions are in progress: the command thread takes no command.
LEMMA NotQuiet ==
  ASSUME OmxInv, actions[1] # {}, Quiet' => Quiet
  PROVE  ~Quiet /\ ~Quiet' /\ QuietIdle' /\ NotifyDone'
<1>1. ~Quiet /\ ~Quiet'
  BY DEF OmxInv, QuietIdle
<1> QED
  BY <1>1 DEF QuietIdle, NotifyDone, Quiet

LEMMA OmxTakeActions ==
  ASSUME OmxAssumption, OmxInv, NEW t \in Threads, TakeActions(t)
  PROVE  OmxInv'
<1> DEFINE A == actions[1]  R == CanRun(1)  P == {Pending[a] : a \in CanRun(1)}
           f == Frame("run", 1, R, P)
<1>1. View(t).at = "take" /\ Top(t).port = 1 /\ Top(t) = View(t)
  BY AtCheck DEF TakeActions, CheckStates
<1>2. /\ A # {} /\ actions' = [actions EXCEPT ![1] = (@ \ R) \cup P] /\ Replace(t, <<f>>)
      /\ UNCHANGED <<state, transition, queue, enabled, buffers, populated, transit, on, pool, held,
                     own, ret, owed, shorted, failures>>
  BY <1>1 DEF TakeActions, mmalVars, seenVars
<1>3. f.at = "run" /\ f.port = 1 /\ f = Frame("run", 1, f.todo, f.did) /\ f.todo = R /\ f.did = P
  BY DEF Frame
<1>4. R \subseteq DOMAIN Pending \cap A
  BY DEF CanRun
<1>5. P \subseteq Pendings /\ \A x \in P : \E a \in R : x = Pending[a]
  BY <1>4, Names
<1>6. \A a \in R : Pending[a] \in P
  OBVIOUS
<1>7. actions = [p \in Ports |-> actions[p]] /\ 1 \in Ports
  BY OnePort DEF OmxInv, OmxTypes
<1>8. actions'[1] = (A \ R) \cup P /\ actions' = [p \in Ports |-> actions'[p]]
  BY <1>2, <1>7
<1> HIDE DEF R, P, f, A
<1>9. Stacks' /\ View(t)' = f /\ OtherViews(t) /\ Call' = Call
  <2>1. View(t).at \in CheckStates /\ f.at \in CheckStates
    BY <1>1, <1>3 DEF CheckStates
  <2>2. stack' = [stack EXCEPT ![t] = <<f>> \o Tail(@)] /\ Stacks
    BY <1>2 DEF Replace, OmxInv
  <2> QED
    BY <1>3, <2>1, <2>2, CheckTurns
<1>10. /\ Todo(t) = {} /\ Did(t) = {} /\ Todo(t)' = R /\ Did(t)' = P
       /\ \A u \in Threads : u # t => Todo(u)' = Todo(u) /\ Did(u)' = Did(u)
  BY <1>1, <1>3, <1>9 DEF Todo, Did, OtherViews
<1>11. Quiet' <=> Quiet
  BY <1>1, <1>3, <1>9, CheckQuiet DEF CheckStates
<1>12. QuietIdle' /\ NotifyDone' /\ ~Quiet /\ ~Quiet'
  BY <1>2, <1>11, NotQuiet DEF A
<1>13. OmxTypes'
  BY <1>2, <1>8 DEF OmxInv, OmxTypes
<1>14. \A x : x \notin DOMAIN Pending \cup Pendings => (x \in actions'[1] <=> x \in A)
  BY <1>4, <1>5, <1>8
<1>15. /\ \A k \in DOMAIN Notify : Notify[k] \in actions'[1] <=> Notify[k] \in A
       /\ "notify enable" \in actions'[1] <=> "notify enable" \in A
       /\ "notify disable" \in actions'[1] <=> "notify disable" \in A
       /\ "notify flush" \in actions'[1] <=> "notify flush" \in A
       /\ "check allocated" \in actions'[1] <=> "check allocated" \in A
       /\ "check deallocated" \in actions'[1] <=> "check deallocated" \in A
       /\ "check flushed" \in actions'[1] <=> "check flushed" \in A
  BY <1>14, Names DEF Pendings
<1>16. ClientAsked' /\ Headers' /\ NeverShort'
  BY <1>2, <1>9, <1>15 DEF OmxInv, ClientAsked, Headers, NeverShort, A
<1>17. \A a \in DOMAIN Pending : ~(a \in A /\ Pending[a] \in A)
  BY DEF OmxInv, RunsMarked, A
<1>18. P \cap A = {}
  BY <1>4, <1>5, <1>17
<1>19. RunsMarked'
  <2>1. ASSUME NEW u \in Threads
        PROVE  /\ Todo(u)' \subseteq DOMAIN Pending /\ Did(u)' \subseteq actions'[1] \cap Pendings
               /\ \A a \in Todo(u)' : Pending[a] \in Did(u)'
    <3>1. CASE u = t
      BY <1>4, <1>5, <1>6, <1>8, <1>10, <3>1
    <3>2. CASE u # t
      <4>1. /\ Todo(u) \subseteq DOMAIN Pending /\ Did(u) \subseteq A \cap Pendings
            /\ \A a \in Todo(u) : Pending[a] \in Did(u)
        BY DEF OmxInv, RunsMarked, A
      <4>2. R \cap Pendings = {}
        BY <1>4, Names DEF Pendings
      <4> QED
        BY <1>8, <1>10, <3>2, <4>1, <4>2
    <3> QED
      BY <3>1, <3>2
  <2>2. Did("cmd")' \cap Did("client")' = {}
    <3>1. Did("cmd") \subseteq A /\ Did("client") \subseteq A
      BY DEF OmxInv, RunsMarked, A, Threads
    <3>2. CASE t = "cmd"
      BY <1>10, <1>18, <3>1, <3>2 DEF Threads
    <3>3. CASE t = "client"
      BY <1>10, <1>18, <3>1, <3>3 DEF Threads
    <3> QED
      BY <3>2, <3>3 DEF Threads
  <2>3. ASSUME NEW a \in DOMAIN Pending, a \in actions'[1], Pending[a] \in actions'[1]
        PROVE  FALSE
    <3>1. a \notin Pendings
      BY Names DEF Pendings
    <3>2. a \in A /\ a \notin R
      BY <1>5, <1>8, <2>3, <3>1
    <3>3. Pending[a] \in P
      BY <1>8, <1>17, <2>3, <3>2
    <3>4. PICK b \in R : Pending[a] = Pending[b]
      BY <1>5, <3>3
    <3>5. a = b
      BY <1>4, <3>4, Names
    <3> QED
      BY <3>2, <3>4, <3>5
  <2> QED
    BY <2>1, <2>2, <2>3 DEF RunsMarked
<1>20. /\ (Enabling' <=> Enabling) /\ (Disabling' <=> Disabling) /\ (Flushing' <=> Flushing)
  BY <1>2, <1>15 DEF Enabling, Disabling, Flushing, A
<1>21. (EnablePending => EnablePending') /\ (DisablePending => DisablePending')
  <2>1. ASSUME NEW a \in DOMAIN Pending, a \in A \/ \E u \in Threads : a \in Todo(u)
        PROVE  a \in actions'[1] \/ \E u \in Threads : a \in Todo(u)'
    <3>1. CASE a \in A
      BY <1>8, <1>10, <3>1
    <3>2. CASE \E u \in Threads : a \in Todo(u)
      BY <1>10, <3>2
    <3> QED
      BY <2>1, <3>1, <3>2
  <2> QED
    BY <2>1, Names DEF EnablePending, DisablePending, A
<1>22. InProgress'
  <2>1. Enabling => actions'[1] \subseteq {"check allocated", "enable", "pending enable", "notify enable"}
    <3>1. SUFFICES ASSUME Enabling
                   PROVE  actions'[1] \subseteq {"check allocated", "enable", "pending enable", "notify enable"}
      OBVIOUS
    <3>2. A \subseteq {"check allocated", "enable", "pending enable", "notify enable"}
      BY <3>1 DEF OmxInv, InProgress, A
    <3>3. R \subseteq {"enable"}
      BY <1>4, <3>2, Names
    <3>4. P \subseteq {"pending enable"}
      <4>1. ASSUME NEW x \in P PROVE x \in {"pending enable"}
        <5>1. PICK a \in R : x = Pending[a]
          BY <1>5
        <5>2. a \in {"enable"}
          BY <3>3
        <5> QED
          BY <5>1, <5>2, Names
      <4> QED
        BY <4>1
    <3> QED
      BY <1>8, <3>2, <3>4
  <2>2. Disabling =>
          actions'[1] \subseteq {"check deallocated", "disable", "pending disable", "flush",
                                 "pending flush", "check flushed", "notify disable"}
    <3>1. SUFFICES ASSUME Disabling
                   PROVE actions'[1] \subseteq {"check deallocated", "disable", "pending disable",
                                 "flush", "pending flush", "check flushed", "notify disable"}
      OBVIOUS
    <3>2. A \subseteq {"check deallocated", "disable", "pending disable", "flush",
                       "pending flush", "check flushed", "notify disable"}
      BY <3>1 DEF OmxInv, InProgress, A
    <3>3. R \subseteq {"disable", "flush"}
      BY <1>4, <3>2, Names
    <3>4. P \subseteq {"pending disable", "pending flush"}
      <4>1. ASSUME NEW x \in P PROVE x \in {"pending disable", "pending flush"}
        <5>1. PICK a \in R : x = Pending[a]
          BY <1>5
        <5>2. a \in {"disable", "flush"}
          BY <3>3
        <5> QED
          BY <5>1, <5>2, Names
      <4> QED
        BY <4>1
    <3> QED
      BY <1>8, <3>2, <3>4
  <2>3. Flushing => actions'[1] \subseteq {"flush", "pending flush", "check flushed", "notify flush"}
    <3>1. SUFFICES ASSUME Flushing
                   PROVE  actions'[1] \subseteq {"flush", "pending flush", "check flushed", "notify flush"}
      OBVIOUS
    <3>2. A \subseteq {"flush", "pending flush", "check flushed", "notify flush"}
      BY <3>1 DEF OmxInv, InProgress, A
    <3>3. R \subseteq {"flush"}
      BY <1>4, <3>2, Names
    <3>4. P \subseteq {"pending flush"}
      <4>1. ASSUME NEW x \in P PROVE x \in {"pending flush"}
        <5>1. PICK a \in R : x = Pending[a]
          BY <1>5
        <5>2. a \in {"flush"}
          BY <3>3
        <5> QED
          BY <5>1, <5>2, Names
      <4> QED
        BY <4>1
    <3> QED
      BY <1>8, <3>2, <3>4
  <2>4. Enabling \/ Disabling \/ Flushing
    BY <1>2 DEF OmxInv, InProgress, A
  <2>5. /\ transition # NoTransition => \A k \in DOMAIN Notify : Notify[k] \notin A
        /\ Enabling => "check allocated" \in A \/ populated[1]
        /\ Enabling => (failures = 0 => on[1] \/ EnablePending)
        /\ Disabling => "check deallocated" \in A \/ buffers[1] = 0
        /\ Disabling => ~on[1] \/ DisablePending
        /\ Flushing => "check flushed" \in A \/ transit[1] = 0
        /\ "notify disable" \in A => ~enabled[1]
    BY DEF OmxInv, InProgress, A
  <2> QED
    BY <1>2, <1>15, <1>20, <1>21, <2>1, <2>2, <2>3, <2>4, <2>5 DEF InProgress
<1>23. EnabledOn'
  BY <1>2, <1>21 DEF OmxInv, EnabledOn
<1>24. \A a \in Answers : Busy(a)' => Busy(a)
  <2>1. View("cmd")' = View("cmd") \/ View("cmd")'.at \in CheckStates
    BY <1>3, <1>9 DEF OtherViews, Threads, CheckStates
  <2> QED
    BY <1>2, <1>15, <2>1, BusyLess DEF A
<1>25. OwedLeft'
  BY <1>2, <1>24, OwedKept DEF OmxInv
<1> QED
  BY <1>9, <1>12, <1>13, <1>16, <1>19, <1>22, <1>23, <1>25 DEF OmxInv

\* A thread carries out one action: what it still has to do is all that changes
\* of the stacks.
LEMMA OmxDoes ==
  ASSUME OmxInv, NEW t \in Threads, NEW a \in DOMAIN Pending, At(t, "run"), a \in Top(t).todo,
         stack' = [stack EXCEPT ![t][1].todo = @ \ {a}],
         UNCHANGED <<actions, transition, owed, queue, buffers, populated, own>>
  PROVE  /\ Stacks' /\ Call' = Call /\ RunsMarked' /\ OwedLeft' /\ ClientAsked' /\ (Quiet' => Quiet)
         /\ Todo(t)' = Todo(t) \ {a} /\ a \in Todo(t) /\ Did(t)' = Did(t)
         /\ \A u \in Threads : u # t => Todo(u)' = Todo(u) /\ Did(u)' = Did(u)
         /\ Pending[a] \in actions[1] /\ actions[1] # {}
<1>1. View(t).at = "run" /\ Top(t) = View(t)
  BY AtCheck DEF CheckStates
<1>2. /\ Stacks' /\ OtherViews(t) /\ Call' = Call
      /\ View(t)' = Frame("run", 1, View(t).todo \ {a}, View(t).did)
  BY <1>1, CheckDoes DEF OmxInv
<1>3. /\ View(t)'.at = "run" /\ View(t)'.todo = View(t).todo \ {a} /\ View(t)'.did = View(t).did
  BY <1>2 DEF Frame
<1>4. /\ Todo(t)' = Todo(t) \ {a} /\ a \in Todo(t) /\ Did(t)' = Did(t)
      /\ \A u \in Threads : u # t => Todo(u)' = Todo(u) /\ Did(u)' = Did(u)
  BY <1>1, <1>2, <1>3 DEF Todo, Did, OtherViews
<1>5. Pending[a] \in actions[1]
  BY <1>4 DEF OmxInv, RunsMarked
<1>6. RunsMarked'
  <2>1. \A u \in Threads : Todo(u)' \subseteq Todo(u) /\ Did(u)' = Did(u)
    BY <1>4
  <2> QED
    BY <2>1 DEF OmxInv, RunsMarked, Threads
<1>7. /\ Quiet' <=> Quiet
      /\ View("cmd")' # View("cmd") => View("cmd")'.at \in CheckStates /\ View("cmd").at \in CheckStates
  BY <1>1, <1>2, <1>3, CheckQuiet DEF CheckStates
<1>8. \A b \in Answers : Busy(b)' => Busy(b)
  BY <1>7, BusyLess
<1>9. OwedLeft'
  BY <1>8, OwedKept DEF OmxInv
<1>10. ClientAsked'
  BY <1>2 DEF OmxInv, ClientAsked
<1> QED
  BY <1>2, <1>4, <1>5, <1>6, <1>7, <1>9, <1>10

LEMMA OmxRunFlush ==
  ASSUME OmxAssumption, OmxInv, NEW t \in Threads, RunFlush(t)
  PROVE  OmxInv'
<1>1. /\ "flush" \in DOMAIN Pending /\ At(t, "run") /\ "flush" \in Top(t).todo
      /\ stack' = [stack EXCEPT ![t][1].todo = @ \ {"flush"}]
      /\ UNCHANGED <<state, transition, queue, enabled, actions, buffers, populated, transit, on,
                     pool, held, own, ret, owed, shorted, failures>>
  BY Names DEF RunFlush, portVars, seenVars
<1>2. /\ Stacks' /\ Call' = Call /\ RunsMarked' /\ OwedLeft' /\ ClientAsked' /\ (Quiet' => Quiet)
      /\ Todo(t)' = Todo(t) \ {"flush"}
      /\ \A u \in Threads : u # t => Todo(u)' = Todo(u)
      /\ actions[1] # {}
  BY <1>1, OmxDoes
<1>3. QuietIdle' /\ NotifyDone'
  BY <1>2, NotQuiet
<1>4. (EnablePending => EnablePending') /\ (DisablePending => DisablePending')
  BY <1>1, <1>2 DEF EnablePending, DisablePending
<1>5. (Enabling' <=> Enabling) /\ (Disabling' <=> Disabling) /\ (Flushing' <=> Flushing)
  BY <1>1 DEF Enabling, Disabling, Flushing
<1>6. InProgress' /\ EnabledOn'
  BY <1>1, <1>4, <1>5 DEF OmxInv, InProgress, EnabledOn
<1>7. Headers' /\ NeverShort' /\ OmxTypes'
  BY <1>1 DEF OmxInv, Headers, NeverShort, OmxTypes
<1> QED
  BY <1>2, <1>3, <1>6, <1>7 DEF OmxInv

LEMMA OmxRunDisable ==
  ASSUME OmxAssumption, OmxInv, NEW t \in Threads, RunDisable(t)
  PROVE  OmxInv'
<1>1. Top(t).port = 1
  BY AtCheck DEF RunDisable, CheckStates
<1>2. /\ "disable" \in DOMAIN Pending /\ At(t, "run") /\ "disable" \in Top(t).todo
      /\ stack' = [stack EXCEPT ![t][1].todo = @ \ {"disable"}] /\ on' = [on EXCEPT ![1] = FALSE]
      /\ UNCHANGED <<state, transition, queue, enabled, actions, buffers, populated, transit,
                     pool, held, own, ret, owed, shorted, failures>>
  BY <1>1, Names DEF RunDisable, portVars, seenVars
<1>3. /\ Stacks' /\ Call' = Call /\ RunsMarked' /\ OwedLeft' /\ ClientAsked' /\ (Quiet' => Quiet)
      /\ "pending disable" \in actions[1] /\ actions[1] # {}
  BY <1>2, OmxDoes, Names
<1>4. QuietIdle' /\ NotifyDone'
  BY <1>3, NotQuiet
<1>5. on \in [Ports -> BOOLEAN] /\ 1 \in Ports
  BY OnePort DEF OmxInv, OmxTypes
<1>6. on' \in [Ports -> BOOLEAN] /\ ~on'[1]
  BY <1>2, <1>5
<1>7. (Enabling' <=> Enabling) /\ (Disabling' <=> Disabling) /\ (Flushing' <=> Flushing)
  BY <1>2 DEF Enabling, Disabling, Flushing
<1>8. ~Enabling /\ ~Flushing /\ Disabling
  BY <1>3 DEF OmxInv, InProgress
<1>9. InProgress'
  BY <1>2, <1>6, <1>7, <1>8 DEF OmxInv, InProgress
<1>10. ~enabled[1] \/ transition = <<"Idle", "Loaded">>
  BY <1>8 DEF OmxInv, InProgress, Disabling
<1>11. EnabledOn'
  BY <1>2, <1>10 DEF EnabledOn
<1>12. Headers' /\ NeverShort' /\ OmxTypes'
  BY <1>2, <1>6 DEF OmxInv, Headers, NeverShort, OmxTypes
<1> QED
  BY <1>3, <1>4, <1>9, <1>11, <1>12 DEF OmxInv

LEMMA OmxRunEnable ==
  ASSUME OmxAssumption, OmxInv, NEW t \in Threads, RunEnable(t)
  PROVE  OmxInv'
<1>1. Top(t).port = 1
  BY AtCheck DEF RunEnable, CheckStates
<1>2. /\ "enable" \in DOMAIN Pending /\ At(t, "run") /\ "enable" \in Top(t).todo
      /\ stack' = [stack EXCEPT ![t][1].todo = @ \ {"enable"}]
      /\ UNCHANGED <<state, transition, queue, enabled, actions, buffers, populated, transit,
                     held, own, ret, owed, shorted>>
  BY <1>1, Names DEF RunEnable, portVars, seenVars
<1>3. \/ /\ on' = [on EXCEPT ![1] = TRUE] /\ pool' = [pool EXCEPT ![1] = BufferNum]
         /\ failures' = failures
      \/ failures' = failures + 1 /\ on' = on /\ pool' = pool
  BY <1>1 DEF RunEnable
<1>4. /\ Stacks' /\ Call' = Call /\ RunsMarked' /\ OwedLeft' /\ ClientAsked' /\ (Quiet' => Quiet)
      /\ "pending enable" \in actions[1] /\ actions[1] # {}
  BY <1>2, OmxDoes, Names
<1>5. QuietIdle' /\ NotifyDone'
  BY <1>4, NotQuiet
<1>6. /\ on \in [Ports -> BOOLEAN] /\ pool \in [Ports -> Nat] /\ 1 \in Ports /\ BufferNum \in Nat
      /\ failures \in Nat /\ held[1] \in Nat
  BY OnePort DEF OmxInv, OmxTypes, OmxAssumption
<1>7. /\ on' \in [Ports -> BOOLEAN] /\ pool' \in [Ports -> Nat] /\ failures' \in Nat
      /\ failures' = 0 => on'[1] /\ failures = 0
  <2>1. CASE on' = [on EXCEPT ![1] = TRUE] /\ pool' = [pool EXCEPT ![1] = BufferNum] /\ failures' = failures
    <3>1. on'[1] /\ on' \in [Ports -> BOOLEAN]
      BY <1>6, <2>1
    <3>2. pool' \in [Ports -> Nat]
      BY <1>6, <2>1
    <3> QED
      BY <1>6, <2>1, <3>1, <3>2
  <2>2. CASE failures' = failures + 1 /\ on' = on /\ pool' = pool
    <3>1. failures' # 0 /\ failures' \in Nat
      BY <1>6, <2>2
    <3> QED
      BY <1>6, <2>2, <3>1
  <2> QED
    BY <1>3, <2>1, <2>2
<1>8. on'[1] => pool'[1] + held[1] >= BufferNum
  <2>1. CASE pool' = [pool EXCEPT ![1] = BufferNum]
    BY <1>6, <2>1
  <2>2. CASE pool' = pool /\ on' = on
    BY <2>2 DEF OmxInv, Headers
  <2> QED
    BY <1>3, <2>1, <2>2
<1>9. (Enabling' <=> Enabling) /\ (Disabling' <=> Disabling) /\ (Flushing' <=> Flushing)
  BY <1>2 DEF Enabling, Disabling, Flushing
<1>10. Enabling /\ ~Flushing /\ ~Disabling
  BY <1>4 DEF OmxInv, InProgress
<1>11. InProgress'
  BY <1>2, <1>7, <1>9, <1>10 DEF OmxInv, InProgress
<1>12. EnabledOn'
  BY <1>7 DEF EnabledOn
<1>13. Headers'
  BY <1>2, <1>8 DEF OmxInv, Headers
<1>14. NeverShort' /\ OmxTypes'
  BY <1>2, <1>7 DEF OmxInv, NeverShort, OmxTypes
<1> QED
  BY <1>4, <1>5, <1>11, <1>12, <1>13, <1>14 DEF OmxInv

\* What a check leaves of the actions.
LEMMA RemainsOf ==
  ASSUME NEW D, D \subseteq Pendings
  PROVE  LET A == actions[1]
             L == Remains(1, D)
         IN
         /\ L \subseteq A /\ L \cap D = {}
         /\ \A x \in A : x \notin Pendings \cup {"check allocated", "check deallocated", "check flushed"}
                           => x \in L
         /\ \A x \in A \cap Pendings : x \notin D => x \in L
         /\ "check allocated" \in A /\ ~populated[1] => "check allocated" \in L
         /\ "check deallocated" \in A /\ buffers[1] # 0 => "check deallocated" \in L
         /\ "check flushed" \in A /\ transit[1] # 0 => "check flushed" \in L
  BY DEF Remains, Pendings

LEMMA OmxSettle ==
  ASSUME OmxAssumption, OmxInv, NEW t \in Threads, Settle(t)
  PROVE  OmxInv'
<1> DEFINE A == actions[1]  D == Top(t).did  L == Remains(1, D)
<1>1. View(t).at = "run" /\ Top(t).port = 1 /\ Top(t) = View(t)
  BY AtCheck DEF Settle, CheckStates
<1>2. Todo(t) = {} /\ Did(t) = D
  BY <1>1 DEF Settle, Todo, Did
<1>3. D \subseteq A \cap Pendings
  BY <1>2 DEF OmxInv, RunsMarked
<1>4. /\ L \subseteq A /\ L \cap D = {}
      /\ \A x \in A : x \notin Pendings \cup {"check allocated", "check deallocated", "check flushed"}
                        => x \in L
      /\ \A x \in A \cap Pendings : x \notin D => x \in L
      /\ "check allocated" \in A /\ ~populated[1] => "check allocated" \in L
      /\ "check deallocated" \in A /\ buffers[1] # 0 => "check deallocated" \in L
      /\ "check flushed" \in A /\ transit[1] # 0 => "check flushed" \in L
  BY <1>3, RemainsOf
<1> DEFINE f == Frame("left", 1, {}, {})
<1>5. /\ UNCHANGED <<state, transition, queue, enabled, buffers, populated, transit, on, pool, held,
                     own, ret, failures>>
      /\ Replace(t, <<f>>)
      /\ \/ \E k \in DOMAIN Notify :
              /\ L = {Notify[k]}
              /\ actions' = [actions EXCEPT ![1] = {}]
              /\ Answer(<<k, 1>>, TRUE, state)
         \/ /\ \A k \in DOMAIN Notify : L # {Notify[k]}
            /\ actions' = [actions EXCEPT ![1] = L] /\ UNCHANGED <<owed, shorted>>
  BY <1>1, OnePort DEF Settle, NextPort, mmalVars, seenVars
<1>6. f.at = "left" /\ f.port = 1
  BY DEF Frame
<1>7. actions = [p \in Ports |-> actions[p]] /\ 1 \in Ports
  BY OnePort DEF OmxInv, OmxTypes
<1> HIDE DEF A, D, L, f
<1>8. Stacks' /\ View(t)' = f /\ OtherViews(t) /\ Call' = Call
  <2>1. View(t).at \in CheckStates /\ f.at \in CheckStates /\ f.at # "run"
    BY <1>1, <1>6 DEF CheckStates
  <2>2. stack' = [stack EXCEPT ![t] = <<f>> \o Tail(@)] /\ Stacks
    BY <1>5 DEF Replace, OmxInv
  <2> QED
    BY <1>6, <2>1, <2>2, CheckTurns
<1>9. /\ Todo(t)' = {} /\ Did(t)' = {}
      /\ \A u \in Threads : u # t => Todo(u)' = Todo(u) /\ Did(u)' = Did(u)
  BY <1>6, <1>8 DEF Todo, Did, OtherViews
<1>10. /\ Quiet' <=> Quiet
       /\ View("cmd")' # View("cmd") => View("cmd")'.at \in CheckStates /\ View("cmd").at \in CheckStates
  BY <1>1, <1>6, <1>8, CheckQuiet DEF CheckStates
<1>11. (EnablePending => "enable" \in L \/ \E u \in Threads : u # t /\ "enable" \in Todo(u))
       /\ (DisablePending => "disable" \in L \/ \E u \in Threads : u # t /\ "disable" \in Todo(u))
  BY <1>2, <1>4 DEF EnablePending, DisablePending, A, Pendings
<1>12. CASE /\ \A k \in DOMAIN Notify : L # {Notify[k]}
            /\ actions' = [actions EXCEPT ![1] = L] /\ UNCHANGED <<owed, shorted>>
  <2>1. actions'[1] = L /\ actions' = [p \in Ports |-> actions'[p]]
    BY <1>7, <1>12
  <2>2. OmxTypes'
    BY <1>5, <1>12, <2>1 DEF OmxInv, OmxTypes
  <2>3. ClientAsked'
    <3>1. buffers[1] \in Nat
      BY <1>7 DEF OmxInv, OmxTypes
    <3>2. buffers[1] > 0 => buffers[1] # 0
      <4> DEFINE b == buffers[1]
      <4>1. b \in Nat
        BY <3>1
      <4> HIDE DEF b
      <4>2. b > 0 => b # 0
        BY <4>1
      <4> QED
        BY <4>2 DEF b
    <3>3. /\ Call = "allocate" => "check allocated" \in A /\ ~populated[1] /\ buffers[1] < BufferNum
          /\ Call = "free" => "check deallocated" \in A /\ buffers[1] > 0 /\ own[1] > 0
      BY DEF OmxInv, ClientAsked, A
    <3>4. /\ Call = "allocate" => "check allocated" \in L
          /\ Call = "free" => "check deallocated" \in L
      BY <1>4, <3>2, <3>3
    <3> QED
      BY <1>5, <1>8, <2>1, <3>3, <3>4 DEF ClientAsked
  <2>4. Headers' /\ NeverShort'
    BY <1>5, <1>12 DEF OmxInv, Headers, NeverShort
  <2>5. QuietIdle'
    <3>1. A = {} => L = {}
      BY <1>4
    <3> QED
      BY <1>5, <1>10, <2>1, <3>1 DEF OmxInv, QuietIdle, A
  <2>6. NotifyDone'
    <3>1. CASE View("cmd")' = View("cmd")
      BY <1>5, <3>1 DEF OmxInv, NotifyDone
    <3>2. CASE View("cmd")' # View("cmd")
      BY <1>10, <3>2 DEF NotifyDone, CheckStates
    <3> QED
      BY <3>1, <3>2
  <2>7. /\ \A k \in DOMAIN Notify : Notify[k] \in L <=> Notify[k] \in A
        /\ "notify enable" \in L <=> "notify enable" \in A
        /\ "notify disable" \in L <=> "notify disable" \in A
        /\ "notify flush" \in L <=> "notify flush" \in A
    BY <1>4, Names DEF Pendings
  <2>8. (Enabling' <=> Enabling) /\ (Disabling' <=> Disabling) /\ (Flushing' <=> Flushing)
    BY <1>5, <2>1, <2>7 DEF Enabling, Disabling, Flushing, A
  <2>9. (EnablePending => EnablePending') /\ (DisablePending => DisablePending')
    BY <1>9, <1>11, <2>1 DEF EnablePending, DisablePending
  <2>10. /\ transition # NoTransition => \A k \in DOMAIN Notify : Notify[k] \notin A
         /\ Enabling \/ Disabling \/ Flushing \/ A = {}
         /\ Enabling => A \subseteq {"check allocated", "enable", "pending enable", "notify enable"}
         /\ Enabling => "check allocated" \in A \/ populated[1]
         /\ Enabling => (failures = 0 => on[1] \/ EnablePending)
         /\ Disabling => A \subseteq {"check deallocated", "disable", "pending disable", "flush",
                                      "pending flush", "check flushed", "notify disable"}
         /\ Disabling => "check deallocated" \in A \/ buffers[1] = 0
         /\ Disabling => ~on[1] \/ DisablePending
         /\ Flushing => A \subseteq {"flush", "pending flush", "check flushed", "notify flush"}
         /\ Flushing => "check flushed" \in A \/ transit[1] = 0
         /\ "notify disable" \in A => ~enabled[1]
    BY DEF OmxInv, InProgress, A
  <2>11. /\ Enabling \/ Disabling \/ Flushing \/ L = {}
         /\ Enabling => L \subseteq {"check allocated", "enable", "pending enable", "notify enable"}
         /\ Enabling => "check allocated" \in L \/ populated[1]
         /\ Disabling => L \subseteq {"check deallocated", "disable", "pending disable", "flush",
                                      "pending flush", "check flushed", "notify disable"}
         /\ Disabling => "check deallocated" \in L \/ buffers[1] = 0
         /\ Flushing => L \subseteq {"flush", "pending flush", "check flushed", "notify flush"}
         /\ Flushing => "check flushed" \in L \/ transit[1] = 0
    <3>1. A = {} => L = {}
      BY <1>4
    <3>2. Enabling \/ Disabling \/ Flushing \/ L = {}
      BY <2>10, <3>1
    <3>3. /\ Enabling => "check allocated" \in L \/ populated[1]
          /\ Disabling => "check deallocated" \in L \/ buffers[1] = 0
          /\ Flushing => "check flushed" \in L \/ transit[1] = 0
      BY <1>4, <2>10
    <3>4. /\ Enabling => L \subseteq {"check allocated", "enable", "pending enable", "notify enable"}
          /\ Disabling => L \subseteq {"check deallocated", "disable", "pending disable", "flush",
                                       "pending flush", "check flushed", "notify disable"}
          /\ Flushing => L \subseteq {"flush", "pending flush", "check flushed", "notify flush"}
      BY <1>4, <2>10
    <3> QED
      BY <3>2, <3>3, <3>4
  <2>12. InProgress'
    BY <1>5, <2>1, <2>7, <2>8, <2>9, <2>10, <2>11 DEF InProgress
  <2>13. EnabledOn'
    BY <1>5, <2>9 DEF OmxInv, EnabledOn
  <2>14. RunsMarked'
    <3>1. ASSUME NEW u \in Threads
          PROVE  /\ Todo(u)' \subseteq DOMAIN Pending /\ Did(u)' \subseteq L \cap Pendings
                 /\ \A a \in Todo(u)' : Pending[a] \in Did(u)'
      <4>1. CASE u = t
        BY <1>9, <4>1
      <4>2. CASE u # t
        <5>1. /\ Todo(u) \subseteq DOMAIN Pending /\ Did(u) \subseteq A \cap Pendings
              /\ \A a \in Todo(u) : Pending[a] \in Did(u)
          BY DEF OmxInv, RunsMarked, A
        <5>2. Did(u) \cap D = {}
          BY <1>2, <4>2 DEF OmxInv, RunsMarked, Threads
        <5>3. Did(u) \subseteq L
          BY <1>4, <5>1, <5>2
        <5> QED
          BY <1>9, <4>2, <5>1, <5>3
      <4> QED
        BY <4>1, <4>2
    <3>2. Did("cmd")' \cap Did("client")' = {}
      BY <1>9 DEF OmxInv, RunsMarked, Threads
    <3>3. \A a \in DOMAIN Pending : ~(a \in L /\ Pending[a] \in L)
      BY <1>4 DEF OmxInv, RunsMarked, A
    <3> QED
      BY <2>1, <3>1, <3>2, <3>3 DEF RunsMarked
  <2>15. \A a \in Answers : Busy(a)' => Busy(a)
    BY <1>5, <1>10, <2>1, <2>7, BusyLess DEF A
  <2>16. OwedLeft'
    BY <1>5, <1>12, <2>15, OwedKept DEF OmxInv
  <2> QED
    BY <1>8, <2>2, <2>3, <2>4, <2>5, <2>6, <2>12, <2>13, <2>14, <2>16 DEF OmxInv
<1>13. ASSUME NEW k \in DOMAIN Notify, L = {Notify[k]},
              actions' = [actions EXCEPT ![1] = {}], Answer(<<k, 1>>, TRUE, state)
       PROVE  OmxInv'
  <2>1. actions'[1] = {} /\ actions' = [p \in Ports |-> actions'[p]] /\ shorted' = shorted
    BY <1>7, <1>13 DEF Answer
  <2>2. Notify[k] \in {"notify flush", "notify enable", "notify disable"}
    BY Names
  <2>3. /\ "check allocated" \notin L /\ "check deallocated" \notin L /\ "enable" \notin L
        /\ L \cap Pendings = {} /\ Notify[k] \in A
    BY <1>4, <1>13, <2>2 DEF Pendings
  <2>4. Call \notin {"allocate", "free"}
    <3>1. ASSUME Call = "allocate" PROVE FALSE
      BY <1>4, <2>3, <3>1 DEF OmxInv, ClientAsked, A
    <3>2. ASSUME Call = "free" PROVE FALSE
      <4>1. buffers[1] \in Nat /\ buffers[1] > 0 /\ "check deallocated" \in A
        BY <1>7, <3>2 DEF OmxInv, OmxTypes, ClientAsked, A
      <4>2. buffers[1] # 0
        <5> DEFINE b == buffers[1]
        <5>1. b \in Nat /\ b > 0
          BY <4>1
        <5> HIDE DEF b
        <5>2. b # 0
          BY <5>1
        <5> QED
          BY <5>2 DEF b
      <4> QED
        BY <1>4, <2>3, <4>1, <4>2
    <3> QED
      BY <3>1, <3>2
  <2>5. t = "cmd" /\ View("client").at \notin CheckStates
    BY <1>1, <2>4, ClientViews DEF OmxInv, CheckStates, Threads
  <2>6. Todo("client") = {} /\ Did("client") = {}
    BY <2>5 DEF Todo, Did, CheckStates
  <2>7. \A u \in Threads : Todo(u)' = {} /\ Did(u)' = {}
    BY <1>9, <2>5, <2>6 DEF Threads
  <2>8. ~EnablePending
    BY <1>11, <2>3, <2>5, <2>6 DEF Threads
  <2>9. transition = NoTransition
    BY <2>3 DEF OmxInv, InProgress, A
  <2>10. View("cmd")'.at = "left"
    BY <1>6, <1>8, <2>5
  <2>11. ClientAsked' /\ Headers' /\ NeverShort'
    BY <1>5, <1>8, <2>1, <2>4 DEF OmxInv, ClientAsked, Headers, NeverShort
  <2>12. QuietIdle' /\ NotifyDone'
    BY <2>10 DEF QuietIdle, NotifyDone, Quiet
  <2>13. RunsMarked'
    BY <2>1, <2>7 DEF RunsMarked, Threads
  <2>14. InProgress'
    BY <1>5, <2>1, <2>9 DEF InProgress, Enabling, Disabling, Flushing, NoTransition
  <2>15. EnabledOn'
    BY <1>5, <2>8 DEF OmxInv, EnabledOn
  <2>16. <<k, 1>> \in Answers /\ Busy(<<k, 1>>)
    BY <2>3, AnswerOf DEF Busy, A
  <2>17. \A a \in Answers : ~Busy(a)'
    BY <1>5, <2>1, <2>9, <2>10 DEF Busy
  <2>18. OwedLeft' /\ owed' \in [Answers -> Nat]
    BY <1>5, <1>13, <2>16, <2>17, OwedAnswered DEF OmxInv
  <2>19. OmxTypes'
    BY <1>5, <2>1, <2>18 DEF OmxInv, OmxTypes
  <2> QED
    BY <1>8, <2>11, <2>12, <2>13, <2>14, <2>15, <2>18, <2>19 DEF OmxInv
<1> QED
  BY <1>5, <1>12, <1>13

\* The client gives a buffer while the port asks for buffers.
LEMMA OmxAllocate ==
  ASSUME OmxAssumption, OmxInv, Allocate
  PROVE  OmxInv'
<1>1. "client" \in Threads /\ View("client").at = "allocate" /\ Top("client") = View("client")
  BY TopIsView, TopView DEF Allocate, OmxInv, Threads
<1>2. View("client").port = 1 /\ Call = "allocate"
  BY <1>1, ClientViews DEF OmxInv, CheckStates
<1>3. "check allocated" \in actions[1] /\ ~populated[1] /\ buffers[1] < BufferNum
  BY <1>2 DEF OmxInv, ClientAsked
<1>4. /\ buffers' = [buffers EXCEPT ![1] = @ + 1] /\ own' = [own EXCEPT ![1] = @ + 1]
      /\ populated' = [populated EXCEPT ![1] = buffers[1] + 1 = BufferNum]
      /\ Replace("client", <<>>) \/ Replace("client", <<Frame("post", 0, {}, {})>>)
      /\ UNCHANGED <<state, transition, queue, enabled, actions, transit, on, pool, held, ret, owed,
                     shorted, failures>>
  BY <1>1, <1>2 DEF Allocate, mmalVars, seenVars
<1>5. /\ Stacks' /\ OtherViews("client")
      /\ View("client")'.at \in {"idle", "post"} /\ Call' \in {"idle", "post"}
  BY <1>1, <1>4, ClientEnds DEF OmxInv
<1>6. View("cmd")' = View("cmd")
  BY <1>5 DEF OtherViews, Threads
<1>7. \A u \in Threads : Todo(u)' = Todo(u) /\ Did(u)' = Did(u)
  BY <1>1, <1>5 DEF Todo, Did, OtherViews
<1>8. QuietIdle' /\ NotifyDone'
  <2>1. Quiet' => Quiet
    BY <1>6 DEF Quiet
  <2>2. actions[1] # {}
    BY <1>3
  <2> QED
    BY <2>1, <2>2, NotQuiet
<1>9. /\ buffers \in [Ports -> Nat] /\ own \in [Ports -> Nat] /\ populated \in [Ports -> BOOLEAN]
      /\ 1 \in Ports /\ BufferNum \in Nat /\ held[1] \in Nat
  BY OnePort DEF OmxInv, OmxTypes, OmxAssumption
<1>10. /\ buffers' \in [Ports -> Nat] /\ own' \in [Ports -> Nat]
       /\ buffers'[1] = buffers[1] + 1 /\ own'[1] = own[1] + 1
  BY <1>4, <1>9
<1>11. populated' \in [Ports -> BOOLEAN] /\ (populated'[1] <=> buffers[1] + 1 = BufferNum)
  BY <1>4, <1>9
<1>12. OmxTypes'
  BY <1>4, <1>10, <1>11 DEF OmxInv, OmxTypes
<1>13. RunsMarked'
  BY <1>4, <1>7, RunsSame
<1>14. /\ (Enabling' <=> Enabling) /\ (Disabling' <=> Disabling) /\ (Flushing' <=> Flushing)
       /\ (EnablePending' <=> EnablePending) /\ (DisablePending' <=> DisablePending)
  BY <1>4, <1>7 DEF Enabling, Disabling, Flushing, EnablePending, DisablePending
<1>15. Enabling /\ ~Disabling /\ ~Flushing
  BY <1>3 DEF OmxInv, InProgress
<1>16. InProgress'
  BY <1>3, <1>4, <1>14, <1>15 DEF OmxInv, InProgress
<1>17. EnabledOn'
  BY <1>4, <1>14 DEF OmxInv, EnabledOn
<1>18. Headers'
  <2>1. own[1] + held[1] = buffers[1] /\ own[1] \in Nat /\ buffers[1] \in Nat
    BY <1>9 DEF OmxInv, Headers
  <2> DEFINE b == buffers[1]  o == own[1]  h == held[1]
  <2>2. o + h = b /\ o \in Nat /\ b \in Nat /\ h \in Nat /\ b < BufferNum
    BY <1>3, <1>9, <2>1
  <2>3. buffers'[1] = b + 1 /\ own'[1] = o + 1 /\ held'[1] = h
    BY <1>4, <1>10
  <2> HIDE DEF b, o, h
  <2>4. o + 1 + h = b + 1 /\ b + 1 <= BufferNum
    BY <1>9, <2>2
  <2>5. own'[1] + held'[1] = buffers'[1] /\ buffers'[1] <= BufferNum
    BY <2>3, <2>4
  <2>6. populated'[1] => buffers'[1] = BufferNum
    BY <1>10, <1>11
  <2> QED
    BY <1>4, <2>5, <2>6 DEF OmxInv, Headers
<1>19. NeverShort'
  BY <1>4 DEF OmxInv, NeverShort
<1>20. ClientAsked'
  BY <1>5 DEF ClientAsked
<1>21. \A a \in Answers : Busy(a)' => Busy(a)
  BY <1>4, <1>6, BusyLess
<1>22. OwedLeft'
  BY <1>4, <1>21, OwedKept DEF OmxInv
<1> QED
  BY <1>5, <1>8, <1>12, <1>13, <1>16, <1>17, <1>18, <1>19, <1>20, <1>22 DEF OmxInv

\* The client takes one away while the port asks for that.
LEMMA OmxFreeBuffer ==
  ASSUME OmxAssumption, OmxInv, FreeBuffer
  PROVE  OmxInv'
<1>1. "client" \in Threads /\ View("client").at = "free" /\ Top("client") = View("client")
  BY TopIsView, TopView DEF FreeBuffer, OmxInv, Threads
<1>2. View("client").port = 1 /\ Call = "free"
  BY <1>1, ClientViews DEF OmxInv, CheckStates
<1>3. "check deallocated" \in actions[1] /\ buffers[1] > 0 /\ own[1] > 0
  BY <1>2 DEF OmxInv, ClientAsked
<1>4. /\ buffers' = [buffers EXCEPT ![1] = @ - 1] /\ own' = [own EXCEPT ![1] = @ - 1]
      /\ populated' = [populated EXCEPT ![1] = FALSE]
      /\ Replace("client", <<>>) \/ Replace("client", <<Frame("post", 0, {}, {})>>)
      /\ UNCHANGED <<state, transition, queue, enabled, actions, transit, on, pool, held, ret, owed,
                     shorted, failures>>
  BY <1>1, <1>2 DEF FreeBuffer, mmalVars, seenVars
<1>5. /\ Stacks' /\ OtherViews("client")
      /\ View("client")'.at \in {"idle", "post"} /\ Call' \in {"idle", "post"}
  BY <1>1, <1>4, ClientEnds DEF OmxInv
<1>6. View("cmd")' = View("cmd")
  BY <1>5 DEF OtherViews, Threads
<1>7. \A u \in Threads : Todo(u)' = Todo(u) /\ Did(u)' = Did(u)
  BY <1>1, <1>5 DEF Todo, Did, OtherViews
<1>8. QuietIdle' /\ NotifyDone'
  <2>1. Quiet' => Quiet
    BY <1>6 DEF Quiet
  <2>2. actions[1] # {}
    BY <1>3
  <2> QED
    BY <2>1, <2>2, NotQuiet
<1>9. /\ buffers \in [Ports -> Nat] /\ own \in [Ports -> Nat] /\ populated \in [Ports -> BOOLEAN]
      /\ 1 \in Ports /\ BufferNum \in Nat /\ held[1] \in Nat
  BY OnePort DEF OmxInv, OmxTypes, OmxAssumption
<1>10. populated' \in [Ports -> BOOLEAN] /\ ~populated'[1]
  BY <1>4, <1>9
<1> DEFINE b == buffers[1]  o == own[1]  h == held[1]
<1>11. o + h = b /\ o \in Nat /\ b \in Nat /\ h \in Nat /\ b > 0 /\ o > 0 /\ b <= BufferNum
  BY <1>3, <1>9 DEF OmxInv, Headers
<1>12. /\ buffers' = [buffers EXCEPT ![1] = b - 1] /\ own' = [own EXCEPT ![1] = o - 1]
       /\ held'[1] = h
  BY <1>4
<1> HIDE DEF b, o, h
<1>13. b - 1 \in Nat /\ o - 1 \in Nat /\ o - 1 + h = b - 1 /\ b - 1 <= BufferNum
  BY <1>9, <1>11
<1>14. /\ buffers' \in [Ports -> Nat] /\ own' \in [Ports -> Nat]
       /\ buffers'[1] = b - 1 /\ own'[1] = o - 1
  BY <1>9, <1>12, <1>13
<1>15. OmxTypes'
  BY <1>4, <1>10, <1>14 DEF OmxInv, OmxTypes
<1>16. RunsMarked'
  BY <1>4, <1>7, RunsSame
<1>17. /\ (Enabling' <=> Enabling) /\ (Disabling' <=> Disabling) /\ (Flushing' <=> Flushing)
       /\ (EnablePending' <=> EnablePending) /\ (DisablePending' <=> DisablePending)
  BY <1>4, <1>7 DEF Enabling, Disabling, Flushing, EnablePending, DisablePending
<1>18. ~Enabling /\ Disabling /\ ~Flushing
  BY <1>3 DEF OmxInv, InProgress
<1>19. InProgress'
  BY <1>3, <1>4, <1>17, <1>18 DEF OmxInv, InProgress
<1>20. EnabledOn'
  BY <1>4, <1>17 DEF OmxInv, EnabledOn
<1>21. Headers'
  <2>1. own'[1] + held'[1] = buffers'[1] /\ buffers'[1] <= BufferNum
    BY <1>12, <1>13, <1>14
  <2> QED
    BY <1>4, <1>10, <2>1 DEF OmxInv, Headers
<1>22. NeverShort'
  BY <1>4 DEF OmxInv, NeverShort
<1>23. ClientAsked'
  BY <1>5 DEF ClientAsked
<1>24. \A a \in Answers : Busy(a)' => Busy(a)
  BY <1>4, <1>6, BusyLess
<1>25. OwedLeft'
  BY <1>4, <1>24, OwedKept DEF OmxInv
<1> QED
  BY <1>5, <1>8, <1>15, <1>16, <1>19, <1>20, <1>21, <1>22, <1>23, <1>25 DEF OmxInv

\* A client with no command unanswered finds the port idle.
LEMMA NothingOwed ==
  ASSUME OmxAssumption, OmxInv, \A a \in Answers : owed[a] = 0
  PROVE  /\ transition = NoTransition /\ actions[1] = {}
         /\ View("cmd").at # "notify" /\ ~EnablePending
<1>1. ASSUME NEW a \in Answers PROVE ~Busy(a)
  <2>1. owed[a] >= Cardinality(Queued(a)) + (IF Busy(a) THEN 1 ELSE 0) /\ owed[a] = 0
    BY DEF OmxInv, OwedLeft
  <2>2. Cardinality(Queued(a)) \in Nat
    BY QueuedFinite DEF OmxInv
  <2> DEFINE c == Cardinality(Queued(a))
  <2>3. c \in Nat /\ 0 >= c + (IF Busy(a) THEN 1 ELSE 0)
    BY <2>1, <2>2
  <2> HIDE DEF c
  <2>4. ASSUME Busy(a) PROVE FALSE
    <3>1. 0 >= c + 1
      BY <2>3, <2>4
    <3> QED
      BY <2>3, <3>1
  <2> QED
    BY <2>4
<1>2. transition = NoTransition /\ View("cmd").at # "notify"
  BY <1>1, AnswerOf DEF Busy
<1>3. \A k \in DOMAIN Notify : Notify[k] \notin actions[1]
  <2>1. ASSUME NEW k \in DOMAIN Notify PROVE ~Busy(<<k, 1>>)
    BY <1>1, AnswerOf
  <2> QED
    BY <2>1 DEF Busy
<1>4. ~Enabling /\ ~Disabling /\ ~Flushing
  BY <1>2, <1>3, Names DEF Enabling, Disabling, Flushing, NoTransition
<1>5. actions[1] = {}
  BY <1>4 DEF OmxInv, InProgress
<1> QED
  BY <1>2, <1>5, NothingRuns

LEMMA OmxSendBuffer ==
  ASSUME OmxAssumption, OmxInv, NEW p \in Ports, SendBuffer(p)
  PROVE  OmxInv'
<1>1. p = 1 /\ 1 \in Ports /\ BufferNum \in Nat
  BY OnePort DEF OmxAssumption
<1>2. /\ transition = NoTransition /\ actions[1] = {} /\ View("cmd").at # "notify" /\ ~EnablePending
  BY NothingOwed DEF SendBuffer
<1>3. /\ own[1] > 0 /\ state \in {"Pause", "Executing"} /\ enabled[1]
      /\ UNCHANGED <<state, transition, queue, enabled, actions, buffers, populated, on, stack, ret,
                     owed, failures>>
  BY <1>1 DEF SendBuffer
<1>4. /\ \A t \in Threads : Todo(t)' = Todo(t) /\ Did(t)' = Did(t)
      /\ View("cmd")' = View("cmd") /\ (Quiet' <=> Quiet) /\ Call' = Call /\ Stacks'
  <2>1. \A t \in Threads : View(t)' = View(t)
    BY <1>3 DEF View
  <2>2. Call' = Call
    BY <1>3 DEF Call
  <2>3. Stacks'
    BY <1>3 DEF OmxInv, Stacks, CmdShape, ClientShape, RunFrames, View
  <2> QED
    BY <2>1, <2>2, <2>3 DEF Todo, Did, Quiet, Threads
<1> DEFINE b == buffers[1]  o == own[1]  h == held[1]  q == pool[1]  r == transit[1]
<1>5. /\ own \in [Ports -> Nat] /\ held \in [Ports -> Nat] /\ pool \in [Ports -> Nat]
      /\ transit \in [Ports -> Nat]
      /\ b \in Nat /\ o \in Nat /\ h \in Nat /\ q \in Nat /\ r \in Nat
      /\ o + h = b /\ b <= BufferNum /\ o > 0
      /\ on[1] => q + h >= BufferNum
      /\ r = h + (IF ret.at = "count" THEN 1 ELSE 0)
  BY <1>1, <1>3 DEF OmxInv, OmxTypes, Headers
<1>6. failures = 0 => on[1]
  <2>1. state \notin Unloaded /\ transition # <<"Idle", "Loaded">>
    BY <1>2, <1>3 DEF Unloaded, NoTransition
  <2> QED
    BY <1>2, <1>3, <2>1 DEF OmxInv, EnabledOn
<1> HIDE DEF b, o, h, q, r
<1>7. on[1] => q > 0
  BY <1>1, <1>5
<1>8. CASE on[1]
  <2>1. /\ pool' = [pool EXCEPT ![1] = q - 1] /\ transit' = [transit EXCEPT ![1] = r + 1]
        /\ held' = [held EXCEPT ![1] = h + 1] /\ own' = [own EXCEPT ![1] = o - 1]
        /\ shorted' = shorted
    BY <1>1, <1>7, <1>8 DEF SendBuffer, q, r, h, o
  <2>2. q - 1 \in Nat /\ r + 1 \in Nat /\ h + 1 \in Nat /\ o - 1 \in Nat
    BY <1>5, <1>7, <1>8
  <2>3. /\ own' \in [Ports -> Nat] /\ own'[1] = o - 1
        /\ held' \in [Ports -> Nat] /\ held'[1] = h + 1
        /\ pool' \in [Ports -> Nat] /\ pool'[1] = q - 1
        /\ transit' \in [Ports -> Nat] /\ transit'[1] = r + 1
    BY <1>1, <1>5, <2>1, <2>2
  <2>4. OmxTypes'
    BY <1>3, <2>1, <2>3 DEF OmxInv, OmxTypes
  <2>5. Headers'
    <3>1. o - 1 + (h + 1) = b
      BY <1>5
    <3>2. q - 1 + (h + 1) >= BufferNum
      BY <1>1, <1>5, <1>8
    <3>3. r + 1 = h + 1 + (IF ret.at = "count" THEN 1 ELSE 0)
      BY <1>5
    <3>4. buffers'[1] = b /\ ret' = ret /\ populated' = populated
      BY <1>3 DEF b
    <3>5. b <= BufferNum /\ (populated[1] => b = BufferNum)
      BY <1>5 DEF OmxInv, Headers, b
    <3>6. own'[1] + held'[1] = buffers'[1]
      BY <2>3, <3>1, <3>4
    <3>7. pool'[1] + held'[1] >= BufferNum
      BY <2>3, <3>2
    <3>8. transit'[1] = held'[1] + (IF ret'.at = "count" THEN 1 ELSE 0)
      BY <2>3, <3>3, <3>4
    <3> QED
      BY <3>4, <3>5, <3>6, <3>7, <3>8 DEF Headers
  <2>6. RunsMarked' /\ NeverShort'
    <3>1. RunsMarked'
      BY <1>3, <1>4, RunsSame
    <3>2. NeverShort'
      BY <1>3, <2>1 DEF OmxInv, NeverShort
    <3> QED
      BY <3>1, <3>2
  <2>7. ClientAsked'
    BY <1>2, <1>4, NothingRuns DEF ClientAsked
  <2>8. QuietIdle' /\ NotifyDone'
    BY <1>2, <1>3, <1>4 DEF QuietIdle, NotifyDone
  <2>9. ~Enabling' /\ ~Disabling' /\ ~Flushing'
    BY <1>2, <1>3 DEF Enabling, Disabling, Flushing, NoTransition
  <2>10. InProgress'
    BY <1>2, <1>3, <2>9 DEF InProgress
  <2>11. EnabledOn'
    BY <1>3, <1>8 DEF EnabledOn
  <2>12. \A a \in Answers : Busy(a)' => Busy(a)
    BY <1>3, <1>4, BusyLess
  <2>13. OwedLeft'
    BY <1>3, <2>12, OwedKept DEF OmxInv
  <2> QED
    BY <1>4, <2>4, <2>5, <2>6, <2>7, <2>8, <2>10, <2>11, <2>13 DEF OmxInv
<1>9. CASE ~on[1]
  <2>1. UNCHANGED <<pool, transit, held, own>>
    BY <1>1, <1>9 DEF SendBuffer
  <2>2. failures # 0
    BY <1>6, <1>9
  <2>3. ClientAsked'
    BY <1>2, <1>4, NothingRuns DEF ClientAsked
  <2>4. QuietIdle' /\ NotifyDone'
    BY <1>2, <1>3, <1>4 DEF QuietIdle, NotifyDone
  <2>5. ~Enabling' /\ ~Disabling' /\ ~Flushing'
    BY <1>2, <1>3 DEF Enabling, Disabling, Flushing, NoTransition
  <2>6. InProgress'
    BY <1>2, <1>3, <2>5 DEF InProgress
  <2>7. EnabledOn' /\ NeverShort'
    BY <1>3, <2>2 DEF EnabledOn, NeverShort
  <2>8. RunsMarked' /\ Headers'
    <3>1. RunsMarked'
      BY <1>3, <1>4, RunsSame
    <3>2. Headers'
      BY <1>3, <2>1 DEF OmxInv, Headers
    <3> QED
      BY <3>1, <3>2
  <2>9. shorted' \in BOOLEAN
    BY <1>1, <1>9 DEF SendBuffer
  <2>10. OmxTypes'
    BY <1>3, <2>1, <2>9 DEF OmxInv, OmxTypes
  <2>11. \A a \in Answers : Busy(a)' => Busy(a)
    BY <1>3, <1>4, BusyLess
  <2>12. OwedLeft'
    BY <1>3, <2>11, OwedKept DEF OmxInv
  <2> QED
    BY <1>4, <2>3, <2>4, <2>6, <2>7, <2>8, <2>10, <2>12 DEF OmxInv
<1> QED
  BY <1>8, <1>9

\* The threads and what they carry out, when the stacks do not change.
LEMMA StacksSame ==
  ASSUME OmxInv, UNCHANGED stack
  PROVE  /\ \A t \in Threads : Todo(t)' = Todo(t) /\ Did(t)' = Did(t)
         /\ View("cmd")' = View("cmd") /\ (Quiet' <=> Quiet) /\ Call' = Call /\ Stacks'
<1>1. \A t \in Threads : View(t)' = View(t)
  BY DEF View
<1>2. Call' = Call
  BY DEF Call
<1>3. Stacks'
  BY DEF OmxInv, Stacks, CmdShape, ClientShape, RunFrames, View
<1> QED
  BY <1>1, <1>2, <1>3 DEF Todo, Did, Quiet, Threads

LEMMA OmxBufferDone ==
  ASSUME OmxAssumption, OmxInv, NEW p \in Ports, BufferDone(p)
  PROVE  OmxInv'
<1>1. p = 1 /\ 1 \in Ports /\ BufferNum \in Nat
  BY OnePort DEF OmxAssumption
<1>2. /\ UNCHANGED <<state, transition, queue, enabled, actions, buffers, populated, transit, on,
                     stack, owed, shorted, failures>>
      /\ ret = Idling /\ held[1] > 0
      /\ pool' = [pool EXCEPT ![1] = @ + 1] /\ own' = [own EXCEPT ![1] = @ + 1]
      /\ held' = [held EXCEPT ![1] = @ - 1]
      /\ ret' = [at |-> "count", port |-> 1, signal |-> "check flushed" \in actions[1]]
  BY <1>1 DEF BufferDone, portVars, seenVars
<1>3. /\ \A t \in Threads : Todo(t)' = Todo(t) /\ Did(t)' = Did(t)
      /\ View("cmd")' = View("cmd") /\ (Quiet' <=> Quiet) /\ Call' = Call /\ Stacks'
  BY <1>2, StacksSame
<1> DEFINE b == buffers[1]  o == own[1]  h == held[1]  q == pool[1]  r == transit[1]
<1>4. ret.at = "idle" /\ ret'.at = "count" /\ ret'.port = 1
  BY <1>2 DEF Idling
<1>5. /\ own \in [Ports -> Nat] /\ held \in [Ports -> Nat] /\ pool \in [Ports -> Nat]
      /\ b \in Nat /\ o \in Nat /\ h \in Nat /\ q \in Nat /\ r \in Nat
      /\ o + h = b /\ b <= BufferNum /\ h > 0
      /\ on[1] => q + h >= BufferNum
      /\ r = h
  <2>1. transit[1] \in Nat /\ held[1] \in Nat
    BY <1>1 DEF OmxInv, OmxTypes
  <2>2. transit[1] = held[1]
    BY <1>4, <2>1 DEF OmxInv, Headers
  <2> QED
    BY <1>1, <1>2, <2>2 DEF OmxInv, OmxTypes, Headers
<1>6. /\ pool' = [pool EXCEPT ![1] = q + 1] /\ own' = [own EXCEPT ![1] = o + 1]
      /\ held' = [held EXCEPT ![1] = h - 1]
  BY <1>2
<1>7. buffers'[1] = b /\ transit'[1] = r
  BY <1>2
<1> HIDE DEF b, o, h, q, r
<1>8. q + 1 \in Nat /\ o + 1 \in Nat /\ h - 1 \in Nat
  BY <1>5
<1>9. /\ own' \in [Ports -> Nat] /\ own'[1] = o + 1
      /\ held' \in [Ports -> Nat] /\ held'[1] = h - 1
      /\ pool' \in [Ports -> Nat] /\ pool'[1] = q + 1
  BY <1>1, <1>5, <1>6, <1>8
<1>10. ret' \in [at : {"idle", "count", "signal"}, port : Nat, signal : BOOLEAN]
  <2> DEFINE s == "check flushed" \in actions[1]
  <2>1. s \in BOOLEAN
    OBVIOUS
  <2>2. ret' = [at |-> "count", port |-> 1, signal |-> s]
    BY <1>2
  <2> HIDE DEF s
  <2> QED
    BY <2>1, <2>2
<1>11. OmxTypes'
  BY <1>2, <1>4, <1>9, <1>10 DEF OmxInv, OmxTypes
<1>12. Headers'
  <2>1. o + 1 + (h - 1) = b
    BY <1>5
  <2>2. on[1] => q + 1 + (h - 1) >= BufferNum
    BY <1>1, <1>5
  <2>3. r = h - 1 + 1
    BY <1>5
  <2>4. own'[1] + held'[1] = buffers'[1]
    BY <1>7, <1>9, <2>1
  <2>5. on'[1] => pool'[1] + held'[1] >= BufferNum
    BY <1>2, <1>9, <2>2
  <2>6. transit'[1] = held'[1] + (IF ret'.at = "count" THEN 1 ELSE 0)
    BY <1>4, <1>7, <1>9, <2>3
  <2> QED
    BY <1>2, <2>4, <2>5, <2>6 DEF OmxInv, Headers
<1>13. RunsMarked' /\ NeverShort'
  <2>1. RunsMarked'
    BY <1>2, <1>3, RunsSame
  <2>2. NeverShort'
    BY <1>2 DEF OmxInv, NeverShort
  <2> QED
    BY <2>1, <2>2
<1>14. ClientAsked'
  <2>1. Call = "free" => own'[1] > 0
    BY <1>5, <1>9
  <2> QED
    BY <1>2, <1>3, <2>1 DEF OmxInv, ClientAsked
<1>15. QuietIdle' /\ NotifyDone'
  BY <1>2, <1>3 DEF OmxInv, QuietIdle, NotifyDone
<1>16. /\ (Enabling' <=> Enabling) /\ (Disabling' <=> Disabling) /\ (Flushing' <=> Flushing)
       /\ (EnablePending' <=> EnablePending) /\ (DisablePending' <=> DisablePending)
  BY <1>2, <1>3 DEF Enabling, Disabling, Flushing, EnablePending, DisablePending
<1>17. InProgress'
  BY <1>2, <1>16 DEF OmxInv, InProgress
<1>18. EnabledOn'
  BY <1>2, <1>16 DEF OmxInv, EnabledOn
<1>19. \A a \in Answers : Busy(a)' => Busy(a)
  BY <1>2, <1>3, BusyLess
<1>20. OwedLeft'
  BY <1>2, <1>19, OwedKept DEF OmxInv
<1> QED
  BY <1>3, <1>11, <1>12, <1>13, <1>14, <1>15, <1>17, <1>18, <1>20 DEF OmxInv

\* The buffer is counted: what waited for it may go on.
LEMMA OmxCountReturned ==
  ASSUME OmxAssumption, OmxInv, CountReturned
  PROVE  OmxInv'
<1>1. 1 \in Ports /\ BufferNum \in Nat /\ ret.port = 1 /\ ret.at = "count"
  BY OnePort DEF OmxAssumption, OmxInv, OmxTypes, CountReturned
<1>2. /\ UNCHANGED <<state, transition, queue, enabled, actions, buffers, populated, on, pool, held,
                     own, stack, owed, shorted, failures>>
      /\ transit' = [transit EXCEPT ![1] = @ - 1]
      /\ ret' = IF "check flushed" \in actions[1] THEN [ret EXCEPT !.at = "signal"] ELSE Idling
  BY <1>1 DEF CountReturned, mmalVars, seenVars
<1>3. /\ \A t \in Threads : Todo(t)' = Todo(t) /\ Did(t)' = Did(t)
      /\ View("cmd")' = View("cmd") /\ (Quiet' <=> Quiet) /\ Call' = Call /\ Stacks'
  BY <1>2, StacksSame
<1> DEFINE h == held[1]  r == transit[1]
<1>4. /\ transit \in [Ports -> Nat] /\ h \in Nat /\ r \in Nat /\ r = h + 1
  <2>1. transit[1] = held[1] + 1
    BY <1>1 DEF OmxInv, Headers
  <2> QED
    BY <1>1, <2>1 DEF OmxInv, OmxTypes
<1>5. transit' = [transit EXCEPT ![1] = r - 1] /\ held'[1] = h
  BY <1>2
<1> HIDE DEF h, r
<1>6. transit' \in [Ports -> Nat] /\ transit'[1] = h /\ r # 0
  <2>1. r - 1 = h /\ r # 0
    BY <1>4
  <2> QED
    BY <1>1, <1>4, <1>5, <2>1
<1>7. /\ ret' \in [at : {"idle", "count", "signal"}, port : Nat, signal : BOOLEAN]
      /\ ret'.at # "count" /\ (ret'.at # "idle" => ret'.port = 1)
  <2>1. CASE "check flushed" \in actions[1]
    <3>1. ret' = [ret EXCEPT !.at = "signal"]
      BY <1>2, <2>1
    <3>2. ret \in [at : {"idle", "count", "signal"}, port : Nat, signal : BOOLEAN]
      BY DEF OmxInv, OmxTypes
    <3> QED
      BY <1>1, <3>1, <3>2
  <2>2. CASE "check flushed" \notin actions[1]
    <3>1. ret' = Idling
      BY <1>2, <2>2
    <3> QED
      BY <3>1 DEF Idling
  <2> QED
    BY <2>1, <2>2
<1>8. OmxTypes'
  BY <1>2, <1>6, <1>7 DEF OmxInv, OmxTypes
<1>9. Headers'
  <2>1. transit'[1] = held'[1] + (IF ret'.at = "count" THEN 1 ELSE 0)
    <3>1. transit'[1] = held'[1] + 0
      BY <1>4, <1>5, <1>6
    <3> QED
      BY <1>7, <3>1
  <2> QED
    BY <1>2, <2>1 DEF OmxInv, Headers
<1>10. RunsMarked' /\ NeverShort' /\ ClientAsked' /\ QuietIdle'
  <2>1. RunsMarked'
    BY <1>2, <1>3, RunsSame
  <2>2. NeverShort' /\ ClientAsked' /\ QuietIdle'
    BY <1>2, <1>3 DEF OmxInv, NeverShort, ClientAsked, QuietIdle
  <2> QED
    BY <2>1, <2>2
<1>11. transit[1] # 0
  BY <1>6 DEF r
<1>12. NotifyDone'
  BY <1>2, <1>3, <1>11 DEF OmxInv, NotifyDone
<1>13. /\ (Enabling' <=> Enabling) /\ (Disabling' <=> Disabling) /\ (Flushing' <=> Flushing)
       /\ (EnablePending' <=> EnablePending) /\ (DisablePending' <=> DisablePending)
  BY <1>2, <1>3 DEF Enabling, Disabling, Flushing, EnablePending, DisablePending
<1>14. InProgress'
  <2>1. Flushing => "check flushed" \in actions[1]
    BY <1>11 DEF OmxInv, InProgress
  <2> QED
    BY <1>2, <1>13, <2>1 DEF OmxInv, InProgress
<1>15. EnabledOn'
  BY <1>2, <1>13 DEF OmxInv, EnabledOn
<1>16. \A a \in Answers : Busy(a)' => Busy(a)
  BY <1>2, <1>3, BusyLess
<1>17. OwedLeft'
  BY <1>2, <1>16, OwedKept DEF OmxInv
<1> QED
  BY <1>3, <1>8, <1>9, <1>10, <1>12, <1>14, <1>15, <1>17 DEF OmxInv

LEMMA OmxSignalReturned ==
  ASSUME OmxInv, SignalReturned
  PROVE  OmxInv'
<1>1. /\ UNCHANGED <<state, transition, queue, enabled, actions, buffers, populated, transit, on,
                     pool, held, own, stack, owed, shorted, failures>>
      /\ ret.at = "signal" /\ ret' = Idling
  BY DEF SignalReturned, portVars, mmalVars, seenVars
<1>2. /\ \A t \in Threads : Todo(t)' = Todo(t) /\ Did(t)' = Did(t)
      /\ View("cmd")' = View("cmd") /\ (Quiet' <=> Quiet) /\ Call' = Call /\ Stacks'
  BY <1>1, StacksSame
<1>3. /\ ret' \in [at : {"idle", "count", "signal"}, port : Nat, signal : BOOLEAN]
      /\ ret'.at = "idle"
  BY <1>1 DEF Idling
<1>4. OmxTypes'
  BY <1>1, <1>3 DEF OmxInv, OmxTypes
<1>5. RunsMarked' /\ NeverShort' /\ ClientAsked' /\ QuietIdle' /\ NotifyDone' /\ Headers'
  <2>1. RunsMarked'
    BY <1>1, <1>2, <1>3, RunsSame
  <2>2. NeverShort' /\ ClientAsked' /\ QuietIdle'
    BY <1>1, <1>2, <1>3 DEF OmxInv, NeverShort, ClientAsked, QuietIdle
  <2>3. NotifyDone'
    BY <1>1, <1>2, <1>3 DEF OmxInv, NotifyDone
  <2>4. Headers'
    BY <1>1, <1>2, <1>3 DEF OmxInv, Headers
  <2> QED
    BY <2>1, <2>2, <2>3, <2>4
<1>6. /\ (Enabling' <=> Enabling) /\ (Disabling' <=> Disabling) /\ (Flushing' <=> Flushing)
      /\ (EnablePending' <=> EnablePending) /\ (DisablePending' <=> DisablePending)
  BY <1>1, <1>2 DEF Enabling, Disabling, Flushing, EnablePending, DisablePending
<1>7. InProgress' /\ EnabledOn'
  BY <1>1, <1>6 DEF OmxInv, InProgress, EnabledOn
<1>8. \A a \in Answers : Busy(a)' => Busy(a)
  BY <1>1, <1>2, BusyLess
<1>9. OwedLeft'
  BY <1>1, <1>8, OwedKept DEF OmxInv
<1> QED
  BY <1>2, <1>4, <1>5, <1>7, <1>9 DEF OmxInv

LEMMA OmxStays == ASSUME OmxInv, UNCHANGED ovars PROVE OmxInv'
<1>1. UNCHANGED <<state, transition, queue, enabled, actions, buffers, populated, transit, on,
                  pool, held, own, stack, owed, shorted, failures, ret>>
  BY DEF ovars, portVars, mmalVars, seenVars
<1>2. /\ \A t \in Threads : Todo(t)' = Todo(t) /\ Did(t)' = Did(t)
      /\ View("cmd")' = View("cmd") /\ (Quiet' <=> Quiet) /\ Call' = Call /\ Stacks'
  BY <1>1, StacksSame
<1>3. OmxTypes'
  BY <1>1 DEF OmxInv, OmxTypes
<1>4. RunsMarked' /\ NeverShort' /\ ClientAsked' /\ QuietIdle' /\ NotifyDone' /\ Headers'
  <2>1. RunsMarked'
    BY <1>1, <1>2, RunsSame
  <2>2. NeverShort' /\ ClientAsked' /\ QuietIdle'
    BY <1>1, <1>2 DEF OmxInv, NeverShort, ClientAsked, QuietIdle
  <2>3. NotifyDone'
    BY <1>1, <1>2 DEF OmxInv, NotifyDone
  <2>4. Headers'
    BY <1>1, <1>2 DEF OmxInv, Headers
  <2> QED
    BY <2>1, <2>2, <2>3, <2>4
<1>5. /\ (Enabling' <=> Enabling) /\ (Disabling' <=> Disabling) /\ (Flushing' <=> Flushing)
      /\ (EnablePending' <=> EnablePending) /\ (DisablePending' <=> DisablePending)
  BY <1>1, <1>2 DEF Enabling, Disabling, Flushing, EnablePending, DisablePending
<1>6. InProgress' /\ EnabledOn'
  BY <1>1, <1>5 DEF OmxInv, InProgress, EnabledOn
<1>7. \A a \in Answers : Busy(a)' => Busy(a)
  BY <1>1, <1>2, BusyLess
<1>8. OwedLeft'
  BY <1>1, <1>7, OwedKept DEF OmxInv
<1> QED
  BY <1>2, <1>3, <1>4, <1>6, <1>8 DEF OmxInv

LEMMA OmxStarts ==
  ASSUME OmxAssumption, OInit
  PROVE  OmxInv
<1>1. Ports = {1} /\ 1 \in Ports /\ BufferNum \in Nat
  BY OnePort DEF OmxAssumption
<1>2. stack["cmd"] = <<>> /\ stack["client"] = <<>>
  BY DEF OInit, Threads
<1>3. /\ \A t \in Threads : View(t) = Nowhere /\ View(t).at = "idle"
      /\ View("cmd").at = "idle" /\ Call = "idle"
  BY <1>2 DEF View, Call, Threads, Nowhere, Frame
<1>4. \A t \in Threads : Todo(t) = {} /\ Did(t) = {}
  BY <1>3 DEF Todo, Did
<1>5. ~Quiet
  BY <1>3 DEF Quiet
<1> DEFINE n == IF state = "Loaded" THEN 0 ELSE BufferNum
<1>6. /\ actions[1] = {} /\ enabled[1] /\ transition = NoTransition
      /\ buffers = [p \in Ports |-> n] /\ pool = [p \in Ports |-> n] /\ own = [p \in Ports |-> n]
      /\ held[1] = 0 /\ transit[1] = 0 /\ (populated[1] <=> state # "Loaded")
      /\ (on[1] <=> state # "Loaded") /\ ret = Idling /\ queue = <<>> /\ ~shorted
      /\ \A a \in Answers : owed[a] = 0
  BY <1>1 DEF OInit
<1>7. n \in Nat /\ n <= BufferNum /\ (state # "Loaded" => n = BufferNum)
  BY <1>1
<1> HIDE DEF n
<1>8. OmxTypes
  <2>1. state \in States
    BY DEF OInit, States, Transitions
  <2>2. /\ enabled \in [Ports -> BOOLEAN] /\ populated \in [Ports -> BOOLEAN]
        /\ on \in [Ports -> BOOLEAN]
    BY DEF OInit
  <2>3. /\ buffers \in [Ports -> Nat] /\ pool \in [Ports -> Nat] /\ own \in [Ports -> Nat]
    BY <1>6, <1>7
  <2>4. /\ transit \in [Ports -> Nat] /\ held \in [Ports -> Nat] /\ owed \in [Answers -> Nat]
    BY DEF OInit
  <2>5. actions = [p \in Ports |-> actions[p]]
    BY DEF OInit
  <2>6. queue \in Seq(Commands)
    BY <1>6
  <2>7. /\ ret \in [at : {"idle", "count", "signal"}, port : Nat, signal : BOOLEAN]
        /\ ret.at = "idle"
    BY <1>6 DEF Idling
  <2>8. failures \in Nat /\ shorted \in BOOLEAN
    BY DEF OInit
  <2> QED
    BY <1>6, <2>1, <2>2, <2>3, <2>4, <2>5, <2>6, <2>7, <2>8 DEF OmxTypes
<1>9. Stacks
  <2>1. stack \in [Threads -> Seq({})]
    BY DEF OInit
  <2>2. CmdShape
    <3>1. Len(stack["cmd"]) = 0
      BY <1>2
    <3>2. CmdFrame(View("cmd"))
      BY <1>3 DEF CmdFrame, CheckStates
    <3>3. \A i \in 2 .. Len(stack["cmd"]) : FALSE
      BY <3>1
    <3> QED
      BY <3>2, <3>3 DEF CmdShape
  <2>3. ClientShape
    BY <1>2 DEF ClientShape
  <2>4. RunFrames
    BY <1>3 DEF RunFrames
  <2> QED
    BY <2>1, <2>2, <2>3, <2>4 DEF Stacks
<1>10. ClientAsked /\ QuietIdle /\ RunsMarked
  BY <1>3, <1>4, <1>5, <1>6 DEF ClientAsked, QuietIdle, RunsMarked, Threads
<1>11. InProgress
  BY <1>6 DEF InProgress, Enabling, Disabling, Flushing, NoTransition
<1>12. EnabledOn /\ NotifyDone /\ NeverShort
  BY <1>3, <1>6 DEF EnabledOn, NotifyDone, NeverShort, Unloaded
<1>13. Headers
  <2>1. buffers[1] = n /\ own[1] = n /\ pool[1] = n
    BY <1>1, <1>6
  <2>2. ret.at = "idle"
    BY <1>6 DEF Idling
  <2>3. n + 0 = n
    BY <1>7
  <2>4. own[1] + held[1] = buffers[1] /\ pool[1] + held[1] = n
    BY <1>6, <2>1, <2>3
  <2>5. on[1] => pool[1] + held[1] >= BufferNum
    BY <1>1, <1>6, <1>7, <2>4
  <2>6. populated[1] => buffers[1] = BufferNum
    BY <1>6, <1>7, <2>1
  <2> QED
    BY <1>6, <1>7, <2>1, <2>2, <2>4, <2>5, <2>6 DEF Headers
<1>14. OwedLeft
  <2>1. ASSUME NEW a \in Answers
        PROVE  owed[a] >= Cardinality(Queued(a)) + (IF Busy(a) THEN 1 ELSE 0)
    <3>1. Queued(a) = {}
      <4>1. Len(queue) = 0
        BY <1>6
      <4>2. 1 .. Len(queue) = {}
        BY <4>1
      <4> QED
        BY <4>2 DEF Queued
    <3>2. Cardinality(Queued(a)) = 0
      BY <3>1, FS_EmptySet
    <3>3. ~Busy(a)
      BY <1>3, <1>6 DEF Busy
    <3> QED
      BY <1>6, <3>2, <3>3
  <2> QED
    BY <2>1 DEF OwedLeft
<1> QED
  BY <1>8, <1>9, <1>10, <1>11, <1>12, <1>13, <1>14 DEF OmxInv

LEMMA OmxMoves ==
  ASSUME OmxAssumption, OmxInv, ONext \/ UNCHANGED ovars
  PROVE  OmxInv'
<1>1. ASSUME NEW t \in Threads, Checks(t) PROVE OmxInv'
  <2>1. CASE TakeActions(t) BY <2>1, OmxTakeActions
  <2>2. CASE NoActions(t) BY <2>2, OmxNoActions
  <2>3. CASE RunFlush(t) BY <2>3, OmxRunFlush
  <2>4. CASE RunDisable(t) BY <2>4, OmxRunDisable
  <2>5. CASE RunEnable(t) BY <2>5, OmxRunEnable
  <2>6. CASE Settle(t) BY <2>6, OmxSettle
  <2>7. CASE Left(t)
    BY <2>7, OmxLeft, OmxLeaves
  <2>8. CASE NotifyState(t) BY <2>8, OmxNotifyState
  <2>9. CASE ActionsNext(t) BY <2>9, OmxActionsNext
  <2>10. CASE StateSetFails(t) BY <2>10, OmxStateSetFails
  <2>11. CASE StateSet(t) BY <2>11, OmxStateSet
  <2>12. CASE PortCommand(t) BY <2>12, OmxPortCommand
  <2>13. CASE PortsDone(t) BY <2>13, OmxPortsDone
  <2> QED
    BY <1>1, <2>1, <2>2, <2>3, <2>4, <2>5, <2>6, <2>7, <2>8, <2>9, <2>10, <2>11, <2>12, <2>13
        DEF Checks
<1>2. ASSUME CmdThread \/ ClientRuns \/ CountReturned \/ SignalReturned PROVE OmxInv'
  <2>1. CASE CmdThread BY <2>1, OmxCmdThread
  <2>2. CASE Signal BY <2>2, OmxSignal
  <2>3. CASE Allocate BY <2>3, OmxAllocate
  <2>4. CASE AllocateFails BY <2>4, OmxAllocateFails
  <2>5. CASE FreeBuffer BY <2>5, OmxFreeBuffer
  <2>6. CASE CountReturned BY <2>6, OmxCountReturned
  <2>7. CASE SignalReturned BY <2>7, OmxSignalReturned
  <2> QED
    BY <1>2, <2>1, <2>2, <2>3, <2>4, <2>5, <2>6, <2>7 DEF ClientRuns
<1>3. ASSUME NEW c \in Commands, SendCommand(c) PROVE OmxInv'
  BY <1>3, OmxSendCommand
<1>4. ASSUME NEW p \in Ports,
             SendBuffer(p) \/ BufferDone(p) \/ (\E what \in {"allocate", "free"} : CallBuffers(what, p))
      PROVE  OmxInv'
  BY <1>4, OmxSendBuffer, OmxBufferDone, OmxCallBuffers
<1>5. CASE UNCHANGED ovars
  BY <1>5, OmxStays
<1> QED
  BY <1>1, <1>2, <1>3, <1>4, <1>5 DEF ONext

LEMMA OmxOneTransition == ASSUME OmxInv PROVE OneTransition
<1>1. ASSUME NEW t \in Threads, At(t, "state set") PROVE transition = NoTransition
  <2>1. Quiet
    BY <1>1, CmdAlone DEF Quiet
  <2> QED
    BY <2>1 DEF OmxInv, QuietIdle
<1> QED
  BY <1>1 DEF OneTransition

\* Who answers a command.
LEMMA OnlyAnswers ==
  ASSUME OmxInv, ONext, NEW a \in Answers, owed'[a] < owed[a]
  PROVE  \E t \in Threads : NotifyState(t) \/ StateSetFails(t) \/ PortCommand(t) \/ Settle(t)
<1>1. owed[a] \in Nat
  BY DEF OmxInv, OmxTypes
<1>2. owed' # owed
  BY <1>1
<1>3. ASSUME NEW t \in Threads, Checks(t)
      PROVE  NotifyState(t) \/ StateSetFails(t) \/ PortCommand(t) \/ Settle(t)
  <2>1. ASSUME TakeActions(t) \/ NoActions(t) \/ RunFlush(t) \/ RunDisable(t) PROVE owed' = owed
    BY <2>1 DEF TakeActions, NoActions, RunFlush, RunDisable, seenVars
  <2>2. ASSUME RunEnable(t) \/ Left(t) \/ ActionsNext(t) PROVE owed' = owed
    BY <2>2 DEF RunEnable, Left, ActionsNext, seenVars
  <2>3. ASSUME StateSet(t) \/ PortsDone(t) PROVE owed' = owed
    BY <2>3 DEF StateSet, PortsDone, seenVars
  <2> QED
    BY <1>2, <1>3, <2>1, <2>2, <2>3 DEF Checks
<1>4. ASSUME CmdThread \/ ClientRuns \/ CountReturned \/ SignalReturned PROVE FALSE
  <2>1. owed' = owed
    BY <1>4 DEF CmdThread, ClientRuns, Signal, Allocate, AllocateFails, FreeBuffer, CountReturned,
                SignalReturned, seenVars
  <2> QED
    BY <1>2, <2>1
<1>5. ASSUME NEW c \in Commands, SendCommand(c) PROVE FALSE
  <2> DEFINE n == IF a \in Owes(c) THEN 1 ELSE 0  x == owed[a]
  <2>1. owed'[a] = x + n
    BY <1>5 DEF SendCommand
  <2>2. n \in Nat /\ x \in Nat /\ owed'[a] < x
    BY <1>1
  <2> HIDE DEF n, x
  <2>3. ~(x + n < x)
    BY <2>2
  <2> QED
    BY <2>1, <2>2, <2>3
<1>6. ASSUME NEW p \in Ports,
             SendBuffer(p) \/ BufferDone(p) \/ (\E what \in {"allocate", "free"} : CallBuffers(what, p))
      PROVE  FALSE
  <2>1. owed' = owed
    BY <1>6 DEF SendBuffer, BufferDone, CallBuffers, seenVars
  <2> QED
    BY <1>2, <2>1
<1> QED
  BY <1>3, <1>4, <1>5, <1>6 DEF ONext

LEMMA AnsweredOne ==
  ASSUME OmxInv, NEW a \in Answers, NEW b, NEW ok, NEW from, Answer(b, ok, from), owed'[a] < owed[a]
  PROVE  a = b /\ told' = [ok |-> ok, from |-> from]
<1>1. owed[a] \in Nat /\ owed \in [Answers -> Nat]
  BY DEF OmxInv, OmxTypes
<1>2. a # b => owed'[a] = owed[a]
  BY <1>1 DEF Answer
<1>3. owed'[a] # owed[a]
  BY <1>1
<1> QED
  BY <1>2, <1>3 DEF Answer

\* The last of a port's actions: what its notification reports is so.
LEMMA SettledDone ==
  ASSUME OmxAssumption, OmxInv, NEW t \in Threads, Settle(t), NEW a \in Answers, owed'[a] < owed[a],
         failures = 0
  PROVE  a[2] = 1 /\ CompleteFor(a[1], 1)
<1> DEFINE A == actions[1]  D == Top(t).did  L == Remains(1, D)
<1>1. View(t).at = "run" /\ Top(t).port = 1 /\ Top(t) = View(t)
  BY AtCheck DEF Settle, CheckStates
<1>2. Todo(t) = {} /\ Did(t) = D
  BY <1>1 DEF Settle, Todo, Did
<1>3. D \subseteq A \cap Pendings
  BY <1>2 DEF OmxInv, RunsMarked
<1>4. /\ L \subseteq A /\ L \cap D = {}
      /\ \A x \in A : x \notin Pendings \cup {"check allocated", "check deallocated", "check flushed"}
                        => x \in L
      /\ \A x \in A \cap Pendings : x \notin D => x \in L
      /\ "check allocated" \in A /\ ~populated[1] => "check allocated" \in L
      /\ "check deallocated" \in A /\ buffers[1] # 0 => "check deallocated" \in L
      /\ "check flushed" \in A /\ transit[1] # 0 => "check flushed" \in L
  BY <1>3, RemainsOf
<1>5. UNCHANGED <<buffers, populated, transit, on>>
  BY DEF Settle, mmalVars
<1>6. PICK k \in DOMAIN Notify : L = {Notify[k]} /\ Answer(<<k, 1>>, TRUE, state)
  <2>1. ASSUME UNCHANGED seenVars PROVE FALSE
    <3>1. owed' = owed /\ owed[a] \in Nat
      BY <2>1 DEF seenVars, OmxInv, OmxTypes
    <3> QED
      BY <3>1
  <2> QED
    BY <1>1, <2>1 DEF Settle
<1>7. a = <<k, 1>>
  BY <1>6, AnsweredOne
<1> HIDE DEF A, D, L
<1>8. Notify[k] \in {"notify flush", "notify enable", "notify disable"}
  BY Names
<1>9. /\ "check allocated" \notin L /\ "check deallocated" \notin L /\ "check flushed" \notin L
      /\ "enable" \notin L /\ "disable" \notin L /\ L \cap Pendings = {} /\ Notify[k] \in A
  BY <1>4, <1>6, <1>8 DEF Pendings
<1>10. "enable" \notin A /\ "disable" \notin A
  BY <1>4, <1>9 DEF Pendings
<1>11. \A u \in Threads : Todo(u) = {}
  <2>1. ASSUME NEW u \in Threads, u # t, NEW x \in Todo(u) PROVE FALSE
    <3>1. Pending[x] \in Did(u) /\ Did(u) \subseteq A \cap Pendings
      BY <2>1 DEF OmxInv, RunsMarked, A
    <3>2. Did(u) \cap D = {}
      BY <1>2, <2>1 DEF OmxInv, RunsMarked, Threads
    <3>3. Pending[x] \in L /\ Pending[x] \in Pendings
      BY <1>4, <3>1, <3>2
    <3> QED
      BY <1>9, <3>3
  <2> QED
    BY <1>2, <2>1
<1>12. ~EnablePending /\ ~DisablePending
  BY <1>10, <1>11 DEF EnablePending, DisablePending, A
<1>13. CASE k = "Flush"
  <2>1. Flushing
    BY <1>9, <1>13, Names DEF Flushing, A
  <2>2. transit[1] = 0
    BY <1>4, <1>9, <2>1 DEF OmxInv, InProgress, A
  <2> QED
    BY <1>5, <1>7, <1>13, <2>2 DEF CompleteFor
<1>14. CASE k = "Enable"
  <2>1. Enabling
    BY <1>9, <1>14, Names DEF Enabling, A
  <2>2. populated[1] /\ on[1]
    BY <1>4, <1>9, <1>12, <2>1 DEF OmxInv, InProgress, A
  <2> QED
    BY <1>5, <1>7, <1>14, <2>2 DEF CompleteFor
<1>15. CASE k = "Disable"
  <2>1. Disabling
    BY <1>9, <1>15, Names DEF Disabling, A
  <2>2. buffers[1] = 0 /\ ~on[1]
    BY <1>4, <1>9, <1>12, <2>1 DEF OmxInv, InProgress, A
  <2> QED
    BY <1>5, <1>7, <1>15, <2>2 DEF CompleteFor
<1> QED
  BY <1>13, <1>14, <1>15, Names

\* A completion is reported when what it reports is so.
LEMMA OmxReports ==
  ASSUME OmxAssumption, OmxInv, ONext
  PROVE  \A a \in Answers : owed'[a] < owed[a] /\ told'.ok /\ failures = 0 =>
           \A p \in IF a[2] = 0 THEN Ports ELSE {a[2]} : CompleteFor(a[1], p)
<1>1. SUFFICES ASSUME NEW a \in Answers, owed'[a] < owed[a], told'.ok, failures = 0
               PROVE  \A p \in IF a[2] = 0 THEN Ports ELSE {a[2]} : CompleteFor(a[1], p)
  OBVIOUS
<1>2. PICK t \in Threads : NotifyState(t) \/ StateSetFails(t) \/ PortCommand(t) \/ Settle(t)
  BY <1>1, OnlyAnswers
<1>3. CASE NotifyState(t)
  <2>1. t = "cmd" /\ View("cmd").at = "notify" /\ Top("cmd") = View("cmd")
    BY <1>3, CmdAlone DEF NotifyState
  <2>2. PICK s : View("cmd").did = {s}
    BY <2>1 DEF OmxInv, Stacks, CmdShape, CmdFrame
  <2>3. Answer(<<"State", 0>>, TRUE, CHOOSE x \in Top(t).did : TRUE)
    BY <1>3 DEF NotifyState
  <2>4. a = <<"State", 0>> /\ told' = [ok |-> TRUE, from |-> CHOOSE x \in Top(t).did : TRUE]
    BY <1>1, <2>3, AnsweredOne
  <2>5. told'.from = s
    BY <2>1, <2>2, <2>4
  <2>6. enabled[1] =>
          /\ state = "Loaded" /\ s = "Idle" => buffers[1] = 0 /\ ~on[1]
          /\ state = "Idle" /\ s = "Loaded" => populated[1] /\ on[1]
          /\ state = "Idle" /\ s = "Executing" => transit[1] = 0
    BY <1>1, <2>1, <2>2 DEF OmxInv, NotifyDone
  <2>7. CompleteFor("State", 1)
    BY <2>5, <2>6 DEF CompleteFor
  <2> QED
    BY <2>4, <2>7, OnePort
<1>4. CASE StateSetFails(t)
  <2>1. told' = [ok |-> FALSE, from |-> state]
    BY <1>1, <1>4, AnsweredOne DEF StateSetFails
  <2> QED
    BY <1>1, <2>1
<1>5. CASE PortCommand(t)
  <2> DEFINE k == Asked(t)  q == CHOOSE x \in Top(t).todo : \A r \in Top(t).todo : x <= r
  <2>1. k # "Flush" /\ state \in Unloaded /\ Answer(<<k, q>>, TRUE, state)
    <3>1. ASSUME UNCHANGED seenVars PROVE FALSE
      <4>1. owed' = owed /\ owed[a] \in Nat
        BY <3>1 DEF seenVars, OmxInv, OmxTypes
      <4> QED
        BY <1>1, <4>1
    <3> QED
      BY <1>5, <3>1 DEF PortCommand
  <2> HIDE DEF k, q
  <2>2. a = <<k, q>> /\ told' = [ok |-> TRUE, from |-> state]
    BY <1>1, <2>1, AnsweredOne
  <2>3. t = "cmd" /\ View("cmd").at = "ports" /\ Top("cmd") = View("cmd")
    BY <1>5, CmdAlone DEF PortCommand
  <2>4. PICK j \in DOMAIN Notify : View("cmd").did = {j}
    BY <2>3 DEF OmxInv, Stacks, CmdShape, CmdFrame
  <2>5. k = j
    BY <2>3, <2>4, AskedOne DEF k
  <2>6. \A p : CompleteFor("Enable", p) /\ CompleteFor("Disable", p)
    BY <2>1, <2>2 DEF CompleteFor
  <2> QED
    BY <2>1, <2>2, <2>4, <2>5, <2>6, Names
<1>6. CASE Settle(t)
  <2>1. a[2] = 1 /\ CompleteFor(a[1], 1)
    BY <1>1, <1>6, SettledDone
  <2> QED
    BY <2>1
<1> QED
  BY <1>2, <1>3, <1>4, <1>5, <1>6

\* A component with one port, of any number of buffers: no command is taken
\* while a transition is under way, no buffer finds MMAL's port disabled or
\* without a header (state_set, mmalomx_buffer_send), and a completion
\* (OMX_EventCmdComplete) is reported when what was asked for is done.
THEOREM CommandsTheorem ==
  ASSUME OmxAssumption
  PROVE  OSpec => [](OneTransition /\ NeverShort) /\ CompleteWhenDone
<1> DEFINE Reported ==
      \A a \in Answers : owed'[a] < owed[a] /\ told'.ok /\ failures = 0 =>
        \A p \in IF a[2] = 0 THEN Ports ELSE {a[2]} : CompleteFor(a[1], p)
<1>1. OInit => OmxInv
  BY OmxStarts
<1>2. OmxInv /\ [ONext]_ovars => OmxInv'
  BY OmxMoves
<1>3. OmxInv => OneTransition /\ NeverShort
  BY OmxOneTransition DEF OmxInv
<1>4. OmxInv /\ [ONext]_ovars => [Reported]_ovars
  BY OmxReports
<1> QED
  BY <1>1, <1>2, <1>3, <1>4, PTL DEF OSpec, CompleteWhenDone

=============================================================================
