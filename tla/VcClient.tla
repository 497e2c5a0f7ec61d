------------------------------ MODULE VcClient ------------------------------
(***************************************************************************)
(* The host's end of the link to VideoCore (mmal_vc_client.c).  All the    *)
(* threads of a process share one client: a counted service, a pool of     *)
(* waiters for the replies, and a lock that keeps a message and the bulk   *)
(* transfer that carries its data together.  VideoCore handles messages    *)
(* and bulk transfers in the order in which each kind was queued.          *)
(***************************************************************************)
EXTENDS Integers, FiniteSets, Sequences

CONSTANTS
  Threads,
  Waiters,      \* the wait pool (MAX_WAITERS)
  MaxCalls      \* bound: mmal_vc_init calls and messages in a behaviour

Nobody == "nobody"
None == "none"
WaitersApart == None \notin Waiters
ThreadsApart == Nobody \notin Threads

VARIABLES
  refcount, usecount, inited,
  service,      \* is the VCHIQ service in use?
  sem,          \* waitpool.sem
  inuse, dest,  \* waiters[w].inuse, and whose dest it is
  woken,        \* waiters[w].sem
  bulkLock,
  messages, bulks,     \* queued for VideoCore
  replies,      \* VideoCore's replies, to be delivered in order
  at, waiter, bulk,    \* each thread: where it is, its waiter, does it use bulk_lock?
  holds,        \* history: mmal_vc_init calls each thread has to undo
  calls,        \* history: calls made
  wrong,        \* history: a reply or a transfer reached something else
  useFailed, bulkFailed  \* history: VCHIQ refused to use the service or to
                         \* take a transfer after taking its message

countVars == <<refcount, usecount, inited, service, useFailed>>
waitVars == <<sem, inuse, dest, woken>>
linkVars == <<messages, bulks, replies>>
cvars == <<countVars, waitVars, bulkLock, linkVars, at, waiter, bulk, holds, calls,
           wrong, bulkFailed>>

CInit ==
  /\ refcount = 0 /\ usecount = 0 /\ inited = FALSE /\ service = FALSE
  /\ sem = 0 /\ inuse = {} /\ bulkLock = Nobody
  /\ dest = [w \in Waiters |-> Nobody] /\ woken = [w \in Waiters |-> 0]
  /\ messages = <<>> /\ bulks = <<>> /\ replies = <<>>
  /\ at = [t \in Threads |-> "idle"] /\ waiter = [t \in Threads |-> None]
  /\ bulk = [t \in Threads |-> FALSE] /\ holds = [t \in Threads |-> 0]
  /\ calls = 0 /\ wrong = FALSE /\ useFailed = FALSE /\ bulkFailed = FALSE

Goto(t, place) == at' = [at EXCEPT ![t] = place]

\* mmal_vc_use_internal and mmal_vc_release_internal, under the lock: the
\* service is used while the count is positive.
UseInternal ==
  \/ /\ usecount' = usecount + 1
     /\ service' = (service \/ usecount = 0)
     /\ UNCHANGED useFailed
  \/ /\ usecount = 0                      \* vchiq_use_service failed
     /\ useFailed' = TRUE /\ UNCHANGED <<usecount, service>>
\* Mutant: the service is released whatever the count.
ReleaseAtOnce ==
  /\ usecount' = usecount - 1
  /\ service' = FALSE
  /\ UNCHANGED useFailed

ReleaseInternal ==
  /\ usecount' = usecount - 1
  /\ service' = (service /\ usecount # 1)
  /\ UNCHANGED useFailed

\* mmal_vc_init: the lock is held throughout; the first caller opens the
\* service, which counts as a use, and makes the wait pool.  Any of its steps
\* may fail and is undone.
Init(t) ==
  /\ at[t] = "idle" /\ calls < MaxCalls /\ calls' = calls + 1
  /\ \/ /\ refcount > 0
        /\ refcount' = refcount + 1 /\ holds' = [holds EXCEPT ![t] = @ + 1]
        /\ UNCHANGED <<usecount, inited, service, waitVars, at>>
     \/ /\ refcount = 0
        /\ refcount' = 1 /\ inited' = TRUE /\ usecount' = 1 /\ service' = TRUE
        /\ sem' = Cardinality(Waiters) /\ inuse' = {}
        /\ dest' = [w \in Waiters |-> Nobody] /\ woken' = [w \in Waiters |-> 0]
        /\ holds' = [holds EXCEPT ![t] = @ + 1]
        /\ Goto(t, "opened")
     \/ refcount = 0 /\ UNCHANGED <<refcount, usecount, inited, service, waitVars, at, holds>>
  /\ UNCHANGED <<useFailed, bulkLock, linkVars, waiter, bulk, wrong, bulkFailed>>

\* ... and gives the use up outside the lock.
Opened(t) ==
  /\ at[t] = "opened"
  /\ ReleaseInternal /\ Goto(t, "idle")
  /\ UNCHANGED <<refcount, inited, waitVars, bulkLock, linkVars, waiter, bulk, holds, calls,
                 wrong, bulkFailed>>

\* mmal_vc_deinit.
Deinit(t) ==
  /\ at[t] = "idle" /\ holds[t] > 0
  /\ holds' = [holds EXCEPT ![t] = @ - 1]
  /\ refcount' = refcount - 1
  /\ IF refcount = 1
     THEN inited' = FALSE /\ service' = FALSE /\ sem' = 0
     ELSE UNCHANGED <<inited, service, sem>>
  /\ UNCHANGED <<usecount, useFailed, inuse, dest, woken, bulkLock, linkVars, at, waiter, bulk,
                 calls, wrong, bulkFailed>>

\* mmal_vc_sendwait_message and mmal_vc_send_message by a thread that has
\* the client open: first bulk_lock, for a message with data.
Call(t, wait, b) ==
  /\ at[t] = "idle" /\ holds[t] > 0 /\ inited
  /\ calls < MaxCalls /\ calls' = calls + 1
  /\ b => bulkLock = Nobody
  /\ bulkLock' = IF b THEN t ELSE bulkLock
  /\ bulk' = [bulk EXCEPT ![t] = b]
  /\ Goto(t, IF wait THEN "get_waiter" ELSE "queue")
  /\ UNCHANGED <<countVars, waitVars, linkVars, waiter, holds, wrong, bulkFailed>>

\* Mutant: the first waiter is taken without looking whether it is in use.
GetWaiterFirst(t) ==
  /\ at[t] = "get_waiter" /\ sem > 0
  /\ sem' = sem - 1
  /\ LET w == CHOOSE w \in Waiters : TRUE IN
     /\ inuse' = inuse \cup {w} /\ dest' = [dest EXCEPT ![w] = t]
     /\ waiter' = [waiter EXCEPT ![t] = w]
  /\ UseInternal /\ Goto(t, "queue")
  /\ UNCHANGED <<refcount, inited, woken, bulkLock, linkVars, bulk, holds, calls, wrong,
                 bulkFailed>>

\* get_waiter, and the service is used until the reply has come (what
\* mmal_vc_use_internal returned is ignored).
GetWaiter(t) ==
  /\ at[t] = "get_waiter" /\ sem > 0
  /\ sem' = sem - 1
  /\ \E w \in Waiters \ inuse :
       /\ inuse' = inuse \cup {w} /\ dest' = [dest EXCEPT ![w] = t]
       /\ waiter' = [waiter EXCEPT ![t] = w]
  /\ UseInternal /\ Goto(t, "queue")
  /\ UNCHANGED <<refcount, inited, woken, bulkLock, linkVars, bulk, holds, calls, wrong,
                 bulkFailed>>

Unlock(t) == bulkLock' = IF bulkLock = t THEN Nobody ELSE bulkLock

\* vchiq_queue_message.
QueueMessage(t) ==
  /\ at[t] = "queue"
  /\ messages' = Append(messages, [from |-> t, bulk |-> bulk[t], waiter |-> waiter[t]])
  /\ Goto(t, IF bulk[t] THEN "transmit" ELSE IF waiter[t] # None THEN "wait" ELSE "idle")
  /\ UNCHANGED <<countVars, waitVars, bulkLock, bulks, replies, waiter, bulk, holds, calls,
                 wrong, bulkFailed>>

QueueFails(t) ==
  /\ at[t] = "queue"
  /\ Unlock(t)
  /\ Goto(t, IF waiter[t] # None THEN "release" ELSE "idle")
  /\ UNCHANGED <<countVars, waitVars, linkVars, waiter, bulk, holds, calls, wrong, bulkFailed>>

\* vchiq_queue_bulk_transmit.
Transmit(t) ==
  /\ at[t] = "transmit"
  /\ Unlock(t)
  /\ \/ /\ bulks' = Append(bulks, t)
        /\ Goto(t, IF waiter[t] # None THEN "wait" ELSE "idle")
        /\ UNCHANGED bulkFailed
     \/ /\ bulkFailed' = TRUE /\ UNCHANGED bulks
        /\ Goto(t, IF waiter[t] # None THEN "release" ELSE "idle")
  /\ UNCHANGED <<countVars, waitVars, messages, replies, waiter, bulk, holds, calls, wrong>>

\* VideoCore takes a message, with the next transfer if it announces one,
\* and replies to what waits.
VideoCore ==
  /\ messages # <<>>
  /\ LET m == Head(messages) IN
     /\ m.bulk => bulks # <<>>
     /\ bulks' = IF m.bulk THEN Tail(bulks) ELSE bulks
     /\ wrong' = (wrong \/ (m.bulk /\ Head(bulks) # m.from))
     /\ replies' = IF m.waiter # None THEN Append(replies, m) ELSE replies
     /\ messages' = Tail(messages)
  /\ UNCHANGED <<countVars, waitVars, bulkLock, at, waiter, bulk, holds, calls, bulkFailed>>

\* mmal_vc_vchiq_callback with a reply: it is copied to the waiter's dest.
Reply ==
  /\ replies # <<>>
  /\ LET m == Head(replies) IN
     /\ wrong' = (wrong \/ m.waiter \notin inuse \/ dest[m.waiter] # m.from)
     /\ woken' = [woken EXCEPT ![m.waiter] = @ + 1]
     /\ replies' = Tail(replies)
  /\ UNCHANGED <<countVars, sem, inuse, dest, bulkLock, messages, bulks, at, waiter, bulk, holds,
                 calls, bulkFailed>>

Woken(t) ==
  /\ at[t] = "wait" /\ woken[waiter[t]] > 0
  /\ woken' = [woken EXCEPT ![waiter[t]] = @ - 1]
  /\ Goto(t, "release")
  /\ UNCHANGED <<countVars, sem, inuse, dest, bulkLock, linkVars, waiter, bulk, holds, calls,
                 wrong, bulkFailed>>

\* Mutant: waitpool.sem is not posted.
ReleaseSilent(t) ==
  /\ at[t] = "release"
  /\ ReleaseInternal
  /\ inuse' = inuse \ {waiter[t]} /\ UNCHANGED sem
  /\ waiter' = [waiter EXCEPT ![t] = None]
  /\ Goto(t, "idle")
  /\ UNCHANGED <<refcount, inited, dest, woken, bulkLock, linkVars, bulk, holds, calls, wrong,
                 bulkFailed>>

\* mmal_vc_release_internal and release_waiter, which posts waitpool.sem.
Release(t) ==
  /\ at[t] = "release"
  /\ ReleaseInternal
  /\ inuse' = inuse \ {waiter[t]} /\ sem' = sem + 1
  /\ waiter' = [waiter EXCEPT ![t] = None]
  /\ Goto(t, "idle")
  /\ UNCHANGED <<refcount, inited, dest, woken, bulkLock, linkVars, bulk, holds, calls, wrong,
                 bulkFailed>>

Step(t) ==
  Opened(t) \/ GetWaiter(t) \/ QueueMessage(t) \/ QueueFails(t) \/ Transmit(t) \/ Woken(t)
  \/ Release(t)

CNext ==
  \/ VideoCore \/ Reply
  \/ \E t \in Threads :
       Init(t) \/ Deinit(t) \/ Step(t) \/ \E wait, b \in BOOLEAN : Call(t, wait, b)

\* Threads inside a call run on and VideoCore answers.
CFair == /\ WF_cvars(VideoCore) /\ WF_cvars(Reply)
         /\ \A t \in Threads : WF_cvars(Step(t)) /\ WF_cvars(GetWaiter(t))
CSpec == CInit /\ [][CNext]_cvars
CFairSpec == CSpec /\ CFair

-----------------------------------------------------------------------------
(* Properties                                                              *)

\* A reply is delivered to the request it answers and a transfer meets the
\* message that announced it, whatever threads send at the same time; until
\* VCHIQ refuses a transfer whose message it took, which the code asserts
\* never happens.
RepliesAndTransfersMatch == wrong => bulkFailed

\* The service is in use while a thread waits for a reply, unless VCHIQ once
\* refused to use it: the result is ignored, the count is one too low from
\* then on and the service is not used again.
ServiceInUse ==
  \A t \in Threads :
    at[t] \in {"queue", "transmit", "wait"} /\ waiter[t] # None => service \/ useFailed

\* A thread that waits for a reply gets one.
RequestsReturn == \A t \in Threads : []<>(at[t] = "idle" \/ bulkFailed)

=============================================================================
