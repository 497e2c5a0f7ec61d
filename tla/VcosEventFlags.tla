--------------------------- MODULE VcosEventFlags ---------------------------
(***************************************************************************)
(* Event flags (vcos_generic_event_flags.c) with the per-thread semaphore  *)
(* and task timer of vcos_pthreads.c they wait on.  A timer's thread calls *)
(* its routine with the timer's lock held; the routine takes the lock of   *)
(* the flags, inside which a waiter sets its own timer.                    *)
(***************************************************************************)
EXTENDS Naturals

CONSTANTS
  Flags,    \* event bits
  Waiters,  \* threads that call vcos_event_flags_get
  MaxGets   \* bound: calls

Free == "free"
\* Free is nobody.
FreeLock == Free \notin Waiters
NoRequest == [bits |-> {}, all |-> FALSE, consume |-> FALSE, timed |-> FALSE]
\* For one bit VCOS_AND and VCOS_OR are the same; a waiter asks for one or all.
Requests == [bits : {{f} : f \in Flags}, all : {FALSE}, consume : BOOLEAN, timed : BOOLEAN]
              \cup [bits : {Flags}, all : BOOLEAN, consume : BOOLEAN, timed : BOOLEAN]

VARIABLES
  events,    \* flags->events
  waiters,   \* the threads whose request is in the list; its order is that
             \* of the posts of one call of set, and changes nothing else
  lock,      \* flags->lock: a thread, or Free
  request,   \* the VCOS_EVENT_WAITER_T on each thread's stack
  status,    \* its return_status: "success" or "again"
  actual,    \* its actual_events
  suspend,   \* count of each thread's semaphore
  timer,     \* each thread's task timer: "none" (not created), "off", "set"
  timerLock, \* timer->lock: "thread" or Free
  routine,   \* orig_task_timer_expiration_routine is set
  expiry,    \* where the timer's thread is
  at,        \* where each thread is
  gets       \* calls made

timerVars == <<timer, timerLock, routine, expiry>>
waitVars == <<request, status, actual, suspend>>
evars == <<events, waiters, lock, waitVars, timerVars, at, gets>>

EInit ==
  /\ events = {} /\ waiters = {} /\ lock = Free
  /\ request = [t \in Waiters |-> NoRequest]
  /\ status = [t \in Waiters |-> "success"] /\ actual = [t \in Waiters |-> {}]
  /\ suspend = [t \in Waiters |-> 0]
  /\ timer = [t \in Waiters |-> "none"] /\ timerLock = [t \in Waiters |-> Free]
  /\ routine = [t \in Waiters |-> FALSE] /\ expiry = [t \in Waiters |-> "idle"]
  /\ at = [t \in Waiters |-> "idle"] /\ gets = 0

Goto(t, place) == at' = [at EXCEPT ![t] = place]
Matches(r, bits) == IF r.all THEN r.bits \subseteq bits ELSE r.bits \cap bits # {}

-----------------------------------------------------------------------------
(* vcos_event_flags_get                                                    *)

\* The flags are looked at with the lock; what is not there is not waited for
\* with a zero suspend,
GetNow(t, r) ==
  /\ at[t] = "idle" /\ lock = Free /\ gets < MaxGets
  /\ gets' = gets + 1
  /\ Matches(r, events)
  /\ events' = IF r.consume THEN events \ r.bits ELSE events
  /\ UNCHANGED <<waiters, lock, waitVars, timerVars, at>>

\* and otherwise the thread joins the list.
GetWaits(t, r) ==
  /\ at[t] = "idle" /\ lock = Free /\ gets < MaxGets
  /\ gets' = gets + 1
  /\ ~Matches(r, events)
  /\ waiters' = waiters \cup {t}
  /\ request' = [request EXCEPT ![t] = r]
  /\ status' = [status EXCEPT ![t] = "again"] /\ actual' = [actual EXCEPT ![t] = {}]
  /\ lock' = IF r.timed THEN t ELSE Free
  /\ Goto(t, IF r.timed THEN "timer" ELSE "wait")
  /\ UNCHANGED <<events, suspend, timerVars>>

\* _vcos_task_timer_set, with the lock of the flags; the timer and its thread
\* are created the first time.
TimerSet(t) ==
  /\ at[t] = "timer" /\ timerLock[t] = Free
  /\ routine' = [routine EXCEPT ![t] = TRUE]
  /\ timer' = [timer EXCEPT ![t] = "set"]
  /\ lock' = Free /\ Goto(t, "wait")
  /\ UNCHANGED <<events, waiters, waitVars, timerLock, expiry, gets>>

\* _vcos_thread_sem_wait
SemWait(t) ==
  /\ at[t] = "wait" /\ suspend[t] > 0
  /\ suspend' = [suspend EXCEPT ![t] = @ - 1]
  /\ Goto(t, "woken")
  /\ UNCHANGED <<events, waiters, lock, request, status, actual, timerVars, gets>>

\* Mutant: the timer's routine is not waited for.
CancelAtOnce(t) ==
  /\ at[t] = "woken"
  /\ IF request[t].timed
     THEN timer' = [timer EXCEPT ![t] = "off"] /\ routine' = [routine EXCEPT ![t] = FALSE]
     ELSE UNCHANGED <<timer, routine>>
  /\ Goto(t, "idle")
  /\ request' = [request EXCEPT ![t] = NoRequest]
  /\ actual' = [actual EXCEPT ![t] = {}] /\ status' = [status EXCEPT ![t] = "success"]
  /\ UNCHANGED <<events, waiters, lock, suspend, timerLock, expiry, gets>>

\* _vcos_task_timer_cancel waits for the timer's lock: a routine that runs is
\* over before the request leaves the stack.
Cancel(t) ==
  /\ at[t] = "woken"
  /\ IF request[t].timed
     THEN /\ timerLock[t] = Free
          /\ timer' = [timer EXCEPT ![t] = "off"]
          /\ routine' = [routine EXCEPT ![t] = FALSE]
     ELSE UNCHANGED <<timer, routine>>
  /\ Goto(t, "idle")
  /\ request' = [request EXCEPT ![t] = NoRequest]
  /\ actual' = [actual EXCEPT ![t] = {}] /\ status' = [status EXCEPT ![t] = "success"]
  /\ UNCHANGED <<events, waiters, lock, suspend, timerLock, expiry, gets>>

-----------------------------------------------------------------------------
(* vcos_event_flags_set                                                    *)

\* Wakes(woken, bits): the waiters of the list in woken get bits and a post.
Wakes(woken, bits) ==
  /\ waiters' = waiters \ woken
  /\ status' = [t \in Waiters |-> IF t \in woken THEN "success" ELSE status[t]]
  /\ actual' = [t \in Waiters |-> IF t \in woken THEN bits ELSE actual[t]]
  /\ suspend' = [t \in Waiters |-> IF t \in woken THEN suspend[t] + 1 ELSE suspend[t]]
  /\ events' = bits \ UNION {request[t].bits : t \in {u \in woken : request[u].consume}}
  /\ UNCHANGED <<lock, request, timerVars, at, gets>>

\* Mutant: what a waiter consumes is gone for those behind it, and the search
\* stops there.
SetOne(bits) ==
  /\ lock = Free
  /\ \E t \in waiters :
       Wakes(IF Matches(request[t], bits) THEN {t} ELSE {}, bits)

\* Every waiter whose request the new flags match is woken, all with the same
\* flags; what they consume is cleared when all were looked at.
Set(bits) ==
  /\ lock = Free
  /\ Wakes({t \in waiters : Matches(request[t], bits)}, bits)

SetOr == \E f \in Flags : Set(events \cup {f})
SetAnd == \E f \in Flags : f \in events /\ Set(events \ {f})

-----------------------------------------------------------------------------
(* The timers' threads                                                     *)

\* _timer_thread: the time has come, and its lock is held from here on.
Fires(t) ==
  /\ timer[t] = "set" /\ timerLock[t] = Free
  /\ timer' = [timer EXCEPT ![t] = "off"]
  /\ timerLock' = [timerLock EXCEPT ![t] = "thread"]
  /\ expiry' = [expiry EXCEPT ![t] = "expired"]
  /\ UNCHANGED <<events, waiters, lock, waitVars, routine, at, gets>>

\* Mutant: the thread is woken whether it was in the list or not.
ExpiredAnyway(t) ==
  /\ expiry[t] = "expired" /\ lock = Free
  /\ waiters' = waiters \ {t}
  /\ expiry' = [expiry EXCEPT ![t] = "post"]
  /\ UNCHANGED <<events, lock, waitVars, timer, timerLock, routine, at, gets>>

\* event_flags_timer_expired: the waiter leaves the list, if it is in it,
Expired(t) ==
  /\ expiry[t] = "expired" /\ lock = Free
  /\ waiters' = waiters \ {t}
  /\ expiry' = [expiry EXCEPT ![t] = IF t \in waiters THEN "post" ELSE "done"]
  /\ UNCHANGED <<events, lock, waitVars, timer, timerLock, routine, at, gets>>

\* and is woken after the lock is given back.
ExpiredPosts(t) ==
  /\ expiry[t] = "post"
  /\ suspend' = [suspend EXCEPT ![t] = @ + 1]
  /\ expiry' = [expiry EXCEPT ![t] = "done"]
  /\ UNCHANGED <<events, waiters, lock, request, status, actual, timer, timerLock,
                 routine, at, gets>>

\* _task_timer_expiration_routine forgets the routine.
ExpiryDone(t) ==
  /\ expiry[t] = "done"
  /\ routine' = [routine EXCEPT ![t] = FALSE]
  /\ timerLock' = [timerLock EXCEPT ![t] = Free]
  /\ expiry' = [expiry EXCEPT ![t] = "idle"]
  /\ UNCHANGED <<events, waiters, lock, waitVars, timer, at, gets>>

Calls(t) == TimerSet(t) \/ SemWait(t) \/ Cancel(t)
TimerRuns(t) == Fires(t) \/ Expired(t) \/ ExpiredPosts(t) \/ ExpiryDone(t)

ENext == \/ SetOr \/ SetAnd
         \/ \E t \in Waiters : \/ Calls(t) \/ TimerRuns(t)
                               \/ \E r \in Requests : GetNow(t, r) \/ GetWaits(t, r)

\* Threads in a call and the timers' threads run on.
EFair == \A t \in Waiters : WF_evars(Calls(t)) /\ WF_evars(TimerRuns(t))
ESpec == EInit /\ [][ENext]_evars
EFairSpec == ESpec /\ EFair

-----------------------------------------------------------------------------
(* Properties                                                              *)

\* No wake-up is missed: nobody sleeps for flags that are there.
NoMissedWake ==
  lock = Free => \A t \in waiters : ~Matches(request[t], events)

\* Each wait is ended by one post, of set or of the timer and never of both:
\* nothing is left in the semaphore for the next wait.
WokenOnce ==
  \A t \in Waiters :
    /\ at[t] = "idle" => suspend[t] = 0 /\ expiry[t] # "post"
    /\ at[t] = "woken" /\ ~request[t].timed => status[t] = "success"
    /\ at[t] = "woken" /\ status[t] = "success" => Matches(request[t], actual[t])

\* The timer's routine runs only while its request is on the stack of the
\* thread, and is there to be called.
RequestAlive == \A t \in Waiters : expiry[t] # "idle" => at[t] # "idle" /\ routine[t]

\* A wait with a timeout ends.
TimedGetReturns == \A t \in Waiters : []<>(at[t] = "idle" \/ ~request[t].timed)
=============================================================================
