------------------------------ MODULE OmxHandle ------------------------------
(***************************************************************************)
(* How a handle of an OpenMAX IL component comes and goes: OMX_GetHandle,  *)
(* OMX_FreeHandle and OMX_GetComponentsOfRole (mmalomx_core.c).  A stage   *)
(* of OMX_GetHandle that fails undoes those before it: the early ones      *)
(* each in its own way, the others through OMX_FreeHandle, which tells by  *)
(* cmd_thread_used whether there is a thread to end.                       *)
(***************************************************************************)
EXTENDS Naturals, Sequences

CONSTANTS
  Registry,   \* number of components in the registry
  FailAt,     \* stages that may fail
  MaxHandles, \* bound: handles got
  TightRoom   \* may the caller have too little room for the names?

Stages == <<"component", "control", "memory", "lock", "lock_port", "pools", "cmd_queue",
            "cmd_pool", "cmd_sema", "cmd_thread">>
Early == {"component", "control", "memory", "lock", "lock_port"}
None == "none"

VARIABLES
  stage,           \* the stage of OMX_GetHandle, or 0 when no call is under way
  made,            \* what the handle consists of so far
  cmd_thread_used, awake, \* awake: cmd_sema was posted
  free,            \* the step of OMX_FreeHandle, or None
  call,            \* "client" or "roles": who wants the handle
  index, found, room, \* of OMX_GetComponentsOfRole; index 0 when not called
  handles,         \* handles that were returned and not freed
  unmade,          \* was something used that was not made?
  calls

listVars == <<index, found, room>>
hvars == <<stage, made, cmd_thread_used, awake, free, call, listVars, handles, unmade, calls>>

HInit ==
  /\ stage = 0 /\ made = {} /\ cmd_thread_used = FALSE /\ awake = FALSE /\ free = None
  /\ call = "client" /\ index = 0 /\ found = 0 /\ room = 0
  /\ handles = 0 /\ unmade = FALSE /\ calls = 0

Use(x) == unmade' = (unmade \/ x \notin made)

-----------------------------------------------------------------------------
(* OMX_GetHandle                                                           *)

Start(who) ==
  /\ stage = 0 /\ made \subseteq {"cmd_sema"} /\ free = None
  /\ stage' = 1 /\ made' = {} /\ call' = who /\ cmd_thread_used' = FALSE /\ awake' = FALSE

GetHandle ==
  /\ index = 0 /\ calls < MaxHandles /\ calls' = calls + 1
  /\ Start("client")
  /\ UNCHANGED <<free, listVars, handles, unmade>>

\* A stage succeeds; the two locks made, cmd_thread_used is set.
StageDone ==
  LET s == Stages[stage] IN
  /\ stage \in 1..Len(Stages) /\ free = None
  /\ made' = made \cup {s}
  /\ stage' = stage + 1
  /\ cmd_thread_used' = (cmd_thread_used \/ s = "lock_port")
  /\ UNCHANGED <<awake, free, call, listVars, handles, unmade, calls>>

\* An early stage fails: what there is is destroyed on the spot.
EarlyFails ==
  LET s == Stages[stage] IN
  /\ stage \in 1..Len(Stages) /\ free = None /\ s \in Early \cap FailAt
  /\ made' = {} /\ stage' = 0
  /\ UNCHANGED <<cmd_thread_used, awake, free, call, listVars, handles, unmade, calls>>

\* Mutant: cmd_thread_used stays set.
LateFailsUsed ==
  LET s == Stages[stage] IN
  /\ stage \in 1..Len(Stages) /\ free = None /\ s \in FailAt \ Early
  /\ made' = IF s = "cmd_thread" THEN made \ {"cmd_sema"} ELSE made
  /\ free' = "thread" /\ stage' = 0
  /\ UNCHANGED <<cmd_thread_used, awake, call, listVars, handles, unmade, calls>>

\* A later one fails: the semaphore or the thread first clears
\* cmd_thread_used, and the thread takes the semaphore with it.
LateFails ==
  LET s == Stages[stage] IN
  /\ stage \in 1..Len(Stages) /\ free = None /\ s \in FailAt \ Early
  /\ cmd_thread_used' = (cmd_thread_used /\ s \notin {"cmd_sema", "cmd_thread"})
  /\ made' = IF s = "cmd_thread" THEN made \ {"cmd_sema"} ELSE made
  /\ free' = "thread" /\ stage' = 0
  /\ UNCHANGED <<awake, call, listVars, handles, unmade, calls>>

Got ==
  /\ stage > Len(Stages) /\ stage' = 0
  /\ handles' = handles + 1
  /\ UNCHANGED <<made, cmd_thread_used, awake, free, call, listVars, unmade, calls>>

-----------------------------------------------------------------------------
(* OMX_FreeHandle                                                          *)

FreeHandle ==
  /\ stage = 0 /\ made # {} /\ free = None /\ handles = 1 /\ (call = "client" \/ index > 0)
  /\ handles' = handles - 1 /\ free' = "thread"
  /\ UNCHANGED <<stage, made, cmd_thread_used, awake, call, listVars, unmade, calls>>

\* The thread is woken, and then joined, if there is one.
WakeThread ==
  /\ free = "thread"
  /\ IF cmd_thread_used THEN Use("cmd_sema") /\ awake' = TRUE /\ free' = "join"
                        ELSE UNCHANGED <<unmade, awake>> /\ free' = "rest"
  /\ cmd_thread_used' = FALSE
  /\ UNCHANGED <<stage, made, call, listVars, handles, calls>>

\* mmalomx_cmd_thread_func: awake, it checks the actions once and ends.
JoinThread ==
  /\ free = "join" /\ awake
  /\ Use("cmd_thread") /\ made' = made \ {"cmd_thread"} /\ free' = "rest"
  /\ UNCHANGED <<stage, cmd_thread_used, awake, call, listVars, handles, calls>>

\* Mutant: the locks are deleted, which every handle has, the pools forgotten.
DestroyForgets ==
  /\ free = "rest" /\ free' = None
  /\ made' = made \cap {"pools"}
  /\ UNCHANGED <<stage, cmd_thread_used, awake, call, listVars, handles, unmade, calls>>

\* The rest goes; cmd_sema would if cmd_thread_used were still set.
Destroy ==
  /\ free = "rest" /\ free' = None
  /\ made' = made \cap {"cmd_sema"}
  /\ UNCHANGED <<stage, cmd_thread_used, awake, call, listVars, handles, unmade, calls>>

-----------------------------------------------------------------------------
(* OMX_GetComponentsOfRole                                                 *)

GetComponentsOfRole(n) ==
  /\ stage = 0 /\ free = None /\ index = 0 /\ calls < MaxHandles
  /\ calls' = calls + 1 /\ index' = 1 /\ found' = 0 /\ room' = n
  /\ Start("roles")
  /\ UNCHANGED <<free, handles, unmade>>

\* The next component, after the last one's handle was freed or not got; the
\* first was asked for above.
NextComponent ==
  /\ index > 0 /\ stage = 0 /\ made \subseteq {"cmd_sema"} /\ free = None
  /\ IF index < Registry
     THEN Start("roles") /\ index' = index + 1
     ELSE index' = 0 /\ UNCHANGED <<stage, made, call, cmd_thread_used, awake>>
  /\ UNCHANGED <<free, found, room, handles, unmade, calls>>

\* ComponentRoleEnum finds the role: its name is stored, or there is no room.
RoleFound ==
  /\ index > 0 /\ handles = 1 /\ free = None /\ stage = 0
  /\ IF found < room
     THEN /\ found' = found + 1 /\ handles' = 0 /\ free' = "thread" /\ UNCHANGED index
     ELSE /\ index' = 0 /\ UNCHANGED <<found, handles, free>>
  /\ UNCHANGED <<stage, made, cmd_thread_used, awake, call, room, unmade, calls>>

HNext ==
  \/ GetHandle \/ StageDone \/ EarlyFails \/ LateFails \/ Got
  \/ FreeHandle \/ WakeThread \/ JoinThread \/ Destroy
  \/ NextComponent \/ RoleFound
  \/ \E n \in (IF TightRoom THEN 0..Registry ELSE {Registry}) : GetComponentsOfRole(n)

HSpec == HInit /\ [][HNext]_hvars

-----------------------------------------------------------------------------
(* Properties                                                              *)

TypeOK == stage \in 0..(Len(Stages) + 1) /\ handles \in 0..1 /\ index \in 0..Registry

\* A stage that fails does not make OMX_FreeHandle post a semaphore or join a
\* thread that was never created.
NothingUnmadeUsed == ~unmade

\* Between calls nothing is left of a handle that was freed or not got,
\* except for the semaphore, and of a list of components nothing at all.
NothingLeft ==
  /\ stage = 0 /\ free = None /\ handles = 0 => made \subseteq {"cmd_sema"}
  /\ index = 0 /\ call = "roles" => handles = 0
=============================================================================
