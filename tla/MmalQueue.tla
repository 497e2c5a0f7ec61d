----------------------------- MODULE MmalQueue ------------------------------
(***************************************************************************)
(* MMAL's queue of buffer headers (mmal_queue.c): a list and its length    *)
(* under a mutex, and a semaphore that counts the headers, so that         *)
(* mmal_queue_wait can sleep without the mutex.  mmal_queue_wait takes a   *)
(* unit of the semaphore, gives it back and only then calls                *)
(* mmal_queue_get; mmal_queue_get waits for a unit with the mutex held.    *)
(***************************************************************************)
EXTENDS Naturals, FiniteSets, Sequences

CONSTANTS
  Users,      \* threads that use the queue
  Headers     \* buffer headers

VARIABLES
  list,       \* first, first->next, ...
  semaphore,
  lock,       \* who holds the mutex: {} or {u}
  at,         \* where each thread is
  has,        \* the headers each thread holds
  got,        \* what its last call returned: "header", "NULL", "waitNULL"
              \* (from mmal_queue_wait) or "none"
  raced       \* history: another thread took a header since the thread gave
              \* its unit of the semaphore back

qvars == <<list, semaphore, lock, at, has, got, raced>>

QInit ==
  /\ list = <<>> /\ semaphore = 0 /\ lock = {}
  /\ at = [u \in Users |-> "idle"]
  /\ has \in [Users -> SUBSET Headers]
  /\ \A u, v \in Users : u # v => has[u] \cap has[v] = {}
  /\ UNION {has[u] : u \in Users} = Headers
  /\ got = [u \in Users |-> "none"]
  /\ raced = [u \in Users |-> FALSE]

Goto(u, place) == at' = [at EXCEPT ![u] = place]
Returns(u, what) == /\ Goto(u, "idle")
                    /\ got' = [got EXCEPT ![u] = what]

\* mmal_queue_put appends.  All it does is under the mutex, and the
\* semaphore is posted last.
Put(u, h) ==
  /\ at[u] = "idle" /\ lock = {} /\ h \in has[u]
  /\ list' = Append(list, h)
  /\ semaphore' = semaphore + 1
  /\ has' = [has EXCEPT ![u] = @ \ {h}]
  /\ UNCHANGED <<lock, at, got, raced>>

\* Mutant: the semaphore is not posted.
PutBackSilent(u, h) ==
  /\ at[u] = "idle" /\ lock = {} /\ h \in has[u]
  /\ list' = <<h>> \o list
  /\ has' = [has EXCEPT ![u] = @ \ {h}]
  /\ UNCHANGED <<semaphore, lock, at, got, raced>>

\* mmal_queue_put_back puts a header before the first.
PutBack(u, h) ==
  /\ at[u] = "idle" /\ lock = {} /\ h \in has[u]
  /\ list' = <<h>> \o list
  /\ semaphore' = semaphore + 1
  /\ has' = [has EXCEPT ![u] = @ \ {h}]
  /\ UNCHANGED <<lock, at, got, raced>>

\* mmal_queue_get on an empty list.
GetNull(u) ==
  /\ at[u] \in {"idle", "get"} /\ lock = {} /\ list = <<>>
  /\ Returns(u, IF at[u] = "get" THEN "waitNULL" ELSE "NULL")
  /\ UNCHANGED <<list, semaphore, lock, has, raced>>

\* ... and on any other: it keeps the mutex and waits for the semaphore,
GetLock(u) ==
  /\ at[u] \in {"idle", "get"} /\ lock = {} /\ list # <<>>
  /\ lock' = {u}
  /\ Goto(u, "unit")
  /\ UNCHANGED <<list, semaphore, has, got, raced>>

\* then takes the first header and leaves.
GetTake(u) ==
  /\ at[u] = "unit" /\ semaphore > 0
  /\ semaphore' = semaphore - 1
  /\ list' = Tail(list)
  /\ has' = [has EXCEPT ![u] = @ \cup {Head(list)}]
  /\ lock' = {}
  /\ raced' = [v \in Users |-> raced[v] \/ (v # u /\ at[v] \in {"post", "get"})]
  /\ Returns(u, "header")

\* mmal_queue_wait and mmal_queue_timedwait: a unit of the semaphore is
\* waited for,
Wait(u) ==
  /\ at[u] = "idle" /\ semaphore > 0
  /\ semaphore' = semaphore - 1
  /\ raced' = [raced EXCEPT ![u] = FALSE]
  /\ Goto(u, "post")
  /\ UNCHANGED <<list, lock, has, got>>

\* (mmal_queue_timedwait may give up)
TimedOut(u) ==
  /\ at[u] = "idle" /\ semaphore = 0
  /\ Returns(u, "NULL")
  /\ UNCHANGED <<list, semaphore, lock, has, raced>>

\* Mutant: the unit is given back once the mutex is held.
WaitPostLocked(u) ==
  /\ at[u] = "post" /\ lock = {}
  /\ semaphore' = semaphore + 1
  /\ Goto(u, "get")
  /\ UNCHANGED <<list, lock, has, got, raced>>

\* and given back at once, without the mutex; then mmal_queue_get.
WaitPost(u) ==
  /\ at[u] = "post"
  /\ semaphore' = semaphore + 1
  /\ Goto(u, "get")
  /\ UNCHANGED <<list, lock, has, got, raced>>

Step(u) == GetNull(u) \/ GetLock(u) \/ GetTake(u) \/ WaitPost(u)

QNext ==
  \E u \in Users :
    \/ \E h \in Headers : Put(u, h) \/ PutBack(u, h)
    \/ Step(u) \/ Wait(u) \/ TimedOut(u)

\* A thread inside a call runs on.
QFair ==
  \A u \in Users :
    /\ WF_qvars(GetTake(u)) /\ WF_qvars(WaitPost(u))
    /\ WF_qvars(at[u] = "get" /\ (GetNull(u) \/ GetLock(u)))

QSpec == QInit /\ [][QNext]_qvars
QFairSpec == QSpec /\ QFair

-----------------------------------------------------------------------------
(* Properties                                                              *)

\* The semaphore counts the headers of the list, but for the units borrowed
\* by threads between the two halves of mmal_queue_wait: no unit is lost or
\* invented, however the calls interleave.
SemaphoreCounts ==
  semaphore + Cardinality({u \in Users : at[u] = "post"}) = Len(list)

\* mmal_queue_wait returns NULL only when another thread took a header in
\* between: a sole consumer is never given NULL.
NullOnlyIfRaced ==
  \A u \in Users : got[u] = "waitNULL" /\ at[u] = "idle" => raced[u]

\* The comment "Will always succeed" beside the wait in mmal_queue_get: the
\* unit may be borrowed at that moment, but it comes back, so no thread stays
\* in mmal_queue_get with the mutex held.
GetReturns == \A u \in Users : []<>(at[u] # "unit")

=============================================================================
