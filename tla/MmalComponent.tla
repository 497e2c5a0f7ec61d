--------------------------- MODULE MmalComponent ----------------------------
(***************************************************************************)
(* The life of an MMAL component (mmal_component.c): creation step by step *)
(* with its error path, the two reference counts that delay destruction    *)
(* until clients and payloads have let go, and the action thread, which is *)
(* joined when the component is destroyed.                                 *)
(***************************************************************************)
EXTENDS Naturals, FiniteSets, Sequences

CONSTANTS
  Clients,         \* threads that hold references to the component
  MaxPayloads,     \* bound: payloads allocated on its ports at a time
  CreateFails,     \* may creation fail?
  FreeInAction     \* may the last reference be dropped by the action thread?

Nobody == "nobody"
ActionThread == "action"
Threads == Clients \cup {ActionThread}
ActionApart == ActionThread \notin Clients

VARIABLES
  built,           \* what has been made so far, in order of creation
  core,            \* mmal_core_refcount
  pointer,         \* what *component is to the caller
  refcount, refcount_ports, destruction_pending,
  at,              \* where each thread is
  holds,           \* history: the references each client has
  payloads,        \* history: the payloads allocated
  destroyed,       \* history: how often the component was freed
  action, event, quit   \* the action thread, its event, action_quit

buildVars == <<built, core, pointer>>
countVars == <<refcount, refcount_ports, destruction_pending>>
actVars == <<action, event, quit>>
mvars == <<buildVars, countVars, at, holds, payloads, destroyed, actVars>>

\* The steps of mmal_component_create_core and what each leaves behind.
Steps == <<"memory", "lock", "control", "constructor", "event_pool", "ports">>

MInit ==
  /\ built = 0 /\ core = 0 /\ pointer = "NULL"
  /\ refcount = 0 /\ refcount_ports = 0 /\ destruction_pending = FALSE
  /\ at = [t \in Threads |-> "idle"]
  /\ holds = [c \in Clients |-> 0]
  /\ payloads = 0 /\ destroyed = 0
  /\ action = "none" /\ event = FALSE /\ quit = FALSE

Goto(t, place) == at' = [at EXCEPT ![t] = place]
Alive == built = Len(Steps)
Called(c) == at[c] = "idle" /\ holds[c] > 0

\* mmal_component_create: mmal_core_init, then the steps.
Create(c) ==
  /\ at[c] = "idle" /\ built = 0 /\ destroyed = 0 /\ core = 0
  /\ core' = 1
  /\ Goto(c, "create")
  /\ UNCHANGED <<built, pointer, countVars, holds, payloads, destroyed, actVars>>

CreateStep(c) ==
  /\ at[c] = "create" /\ built < Len(Steps)
  /\ built' = built + 1
  /\ pointer' = "component"
  /\ refcount' = 1
  /\ IF Steps[built + 1] = "constructor"       \* may register an action
     THEN action' \in {"none", "wait"} ELSE UNCHANGED action
  /\ UNCHANGED <<core, refcount_ports, destruction_pending, at, holds, payloads,
                 destroyed, event, quit>>

CreateDone(c) ==
  /\ at[c] = "create" /\ Alive
  /\ holds' = [holds EXCEPT ![c] = 1]
  /\ Goto(c, "idle")
  /\ UNCHANGED <<buildVars, countVars, payloads, destroyed, actVars>>

\* A step fails.  Without memory or without the lock the call returns at
\* once, the core still initialised and, in the second case, the caller's
\* pointer still pointing at the memory; after that destroy_internal undoes
\* what there is.
CreateFail(c) ==
  /\ CreateFails /\ at[c] = "create" /\ built < Len(Steps)
  /\ IF built < 2
     THEN /\ Goto(c, "idle")
          /\ built' = 0 /\ UNCHANGED <<core, pointer, destroyed>>
     ELSE Goto(c, "join") /\ pointer' = "NULL" /\ UNCHANGED <<built, core, destroyed>>
  /\ UNCHANGED <<countVars, holds, payloads, actVars>>

\* mmal_component_acquire.  (The bound: a client takes at most 2.)
Acquire(c, d) ==
  /\ Called(c) /\ holds[d] < 2
  /\ refcount' = refcount + 1
  /\ holds' = [holds EXCEPT ![d] = @ + 1]
  /\ UNCHANGED <<buildVars, refcount_ports, destruction_pending, at, payloads,
                 destroyed, actVars>>

\* Mutant: the pending destruction is not announced.
ReleaseSilent(c) ==
  /\ Called(c)
  /\ holds' = [holds EXCEPT ![c] = @ - 1]
  /\ refcount' = refcount - 1
  /\ IF refcount = 1 THEN Goto(c, "disable_ports") ELSE UNCHANGED at
  /\ UNCHANGED <<buildVars, refcount_ports, destruction_pending, payloads,
                 destroyed, actVars>>

\* mmal_component_release (mmal_component_destroy is the same): the count is
\* lowered under the lock, and the thread that brings it to 0 goes on to
\* disable and disconnect the ports,
Release(c) ==
  /\ Called(c)
  /\ holds' = [holds EXCEPT ![c] = @ - 1]
  /\ refcount' = refcount - 1
  /\ IF refcount = 1
     THEN destruction_pending' = TRUE /\ Goto(c, "disable_ports")
     ELSE UNCHANGED <<destruction_pending, at>>
  /\ UNCHANGED <<buildVars, refcount_ports, payloads, destroyed, actVars>>

\* then looks, under the lock, whether payloads are left.
ReleaseCheck(c) ==
  /\ at[c] = "disable_ports"
  /\ IF refcount_ports > 0
     THEN destruction_pending' = FALSE /\ Goto(c, "idle")
     ELSE Goto(c, "join") /\ UNCHANGED destruction_pending
  /\ UNCHANGED <<buildVars, refcount, refcount_ports, holds, payloads, destroyed,
                 actVars>>

\* mmal_port_payload_alloc and mmal_port_acquire.
AllocPayload(c) ==
  /\ Called(c) /\ payloads < MaxPayloads
  /\ payloads' = payloads + 1
  /\ refcount_ports' = refcount_ports + 1
  /\ UNCHANGED <<buildVars, refcount, destruction_pending, at, holds, destroyed,
                 actVars>>

\* Mutant: references of clients are not looked at.
FreePayloadEager(t) ==
  /\ at[t] = "idle" /\ payloads > 0
  /\ t = ActionThread => FreeInAction /\ action = "run"
  /\ payloads' = payloads - 1
  /\ refcount_ports' = refcount_ports - 1
  /\ IF refcount_ports = 1 /\ ~destruction_pending THEN Goto(t, "join")
     ELSE UNCHANGED at
  /\ UNCHANGED <<buildVars, refcount, destruction_pending, holds, destroyed,
                 actVars>>

\* mmal_port_payload_free and mmal_port_release: a payload outlives its
\* component's last client; the last one destroys the component, unless a
\* release is under way and will.
FreePayload(t) ==
  /\ at[t] = "idle" /\ payloads > 0
  /\ t = ActionThread => FreeInAction /\ action = "run"
  /\ payloads' = payloads - 1
  /\ refcount_ports' = refcount_ports - 1
  /\ IF refcount_ports = 1 /\ refcount = 0 /\ ~destruction_pending
     THEN Goto(t, "join") ELSE UNCHANGED at
  /\ UNCHANGED <<buildVars, refcount, destruction_pending, holds, destroyed,
                 actVars>>

\* mmal_component_destroy_internal: mmal_component_action_deregister asks the
\* action thread to quit and joins it,
AskToQuit(t) ==
  /\ at[t] = "join" /\ action # "none" /\ ~quit
  /\ quit' = TRUE /\ event' = TRUE
  /\ UNCHANGED <<buildVars, countVars, at, holds, payloads, destroyed, action>>

Joined(t) ==
  /\ at[t] = "join" /\ action \in {"none", "gone"}
  /\ action' = "none" /\ event' = FALSE /\ quit' = FALSE
  /\ Goto(t, "free")
  /\ UNCHANGED <<buildVars, countVars, holds, payloads, destroyed>>

\* Mutant: the core is not released.
FreeComponentKeepsCore(t) ==
  /\ at[t] = "free"
  /\ built' = 0 /\ destroyed' = destroyed + 1
  /\ Goto(t, "idle")
  /\ UNCHANGED <<core, pointer, countVars, holds, payloads, actVars>>

\* then everything is freed, the core last.
FreeComponent(t) ==
  /\ at[t] = "free"
  /\ built' = 0 /\ destroyed' = destroyed + 1
  /\ core' = core - 1
  /\ Goto(t, "idle")
  /\ UNCHANGED <<pointer, countVars, holds, payloads, actVars>>

-----------------------------------------------------------------------------
(* The action thread                                                       *)

\* mmal_component_action_trigger, on the arrival of a header, say.
Trigger(c) ==
  /\ Called(c) /\ action \in {"wait", "run"} /\ ~event
  /\ event' = TRUE
  /\ UNCHANGED <<buildVars, countVars, at, holds, payloads, destroyed, action, quit>>

\* Mutant: the thread looks at action_quit only after a turn without event.
ActionWakeLate ==
  /\ action = "wait" /\ event
  /\ event' = FALSE /\ action' = "run"
  /\ UNCHANGED <<buildVars, countVars, at, holds, payloads, destroyed, quit>>

\* mmal_component_action_thread_func: an event is waited for; it may be the
\* request to quit.
ActionWake ==
  /\ action = "wait" /\ event
  /\ event' = FALSE
  /\ action' = IF quit THEN "gone" ELSE "run"
  /\ UNCHANGED <<buildVars, countVars, at, holds, payloads, destroyed, quit>>

\* pf_action returns.
ActionDone ==
  /\ action = "run" /\ at[ActionThread] = "idle"
  /\ action' = "wait"
  /\ UNCHANGED <<buildVars, countVars, at, holds, payloads, destroyed, event, quit>>

InCall(t) == AskToQuit(t) \/ Joined(t) \/ FreeComponent(t)

MNext ==
  \/ \E c \in Clients :
       \/ Create(c) \/ CreateStep(c) \/ CreateDone(c) \/ CreateFail(c)
       \/ Release(c) \/ ReleaseCheck(c) \/ AllocPayload(c) \/ Trigger(c)
       \/ \E d \in Clients : Acquire(c, d)
  \/ \E t \in Threads : FreePayload(t) \/ InCall(t)
  \/ ActionWake \/ ActionDone

\* Threads inside a call run on; nothing is assumed of the clients.
MFair ==
  /\ \A c \in Clients : WF_mvars(ReleaseCheck(c))
  /\ \A t \in Threads : WF_mvars(InCall(t))
  /\ WF_mvars(ActionWake) /\ WF_mvars(ActionDone)

MSpec == MInit /\ [][MNext]_mvars
MFairSpec == MSpec /\ MFair

-----------------------------------------------------------------------------
(* Properties                                                              *)

References == {c \in Clients : holds[c] > 0}

\* The component is there as long as a client or a payload refers to it, and
\* is destroyed by one thread only: releases of the last reference and of the
\* last payload may be under way in two threads at once.
AliveWhileReferenced ==
  /\ References # {} \/ payloads > 0 => Alive /\ destroyed = 0
  /\ destroyed <= 1
  /\ Cardinality({t \in Threads : at[t] \in {"join", "free"}}) <= 1

\* Once nothing refers to it the component is destroyed, and the core
\* released: neither of two concurrent releases leaves it to the other, and
\* the action thread is always got rid of.
Unreferenced == Alive /\ References = {} /\ payloads = 0 /\ refcount = 0
Gone == destroyed = 1 /\ core = 0 /\ action = "none"
DestroyedWhenUnreferenced == Unreferenced ~> Gone

=============================================================================
