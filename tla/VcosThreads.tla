----------------------------- MODULE VcosThreads -----------------------------
(***************************************************************************)
(* Threads of vcos_pthreads.c: threads made by vcos_thread_create and      *)
(* threads of the program, which get a handle when they first ask for one. *)
(* A handle holds a semaphore, a task timer with a thread of its own and   *)
(* the functions to call when the thread exits.                            *)
(***************************************************************************)
EXTENDS Naturals, Sequences, SequencesExt, FiniteSets

CONSTANTS
  Created,      \* threads made by vcos_thread_create
  Foreign,      \* threads of the program
  Slots,        \* VCOS_MAX_EXIT_HANDLERS
  MaxHandlers,  \* bound: calls of vcos_thread_at_exit per thread
  MaxFires,     \* bound: expiries of each task timer
  ForeignExits, \* threads of the program call vcos_thread_exit
  MaxFailures   \* bound: semaphores and threads that cannot be made

Threads == Created \cup Foreign

VARIABLES
  at,        \* where each thread is
  handle,    \* VCOS_THREAD_T of each thread: "none", "live", "freed"
  semaphore, \* threads whose suspend semaphore exists
  timer,     \* task timer of each thread: "none", "off", "set", "fires"
  quit,      \* timers asked to quit
  atExit,    \* the functions registered, in order; each is named by a number
  ran,       \* those that have run
  fires,     \* expiries of each timer
  started,   \* threads that pthread_create did make
  freedUsed, \* a freed or unmade handle was used
  failures   \* failures so far

handleVars == <<handle, semaphore, freedUsed, failures, started>>
timerVars == <<timer, quit, fires>>
exitVars == <<atExit, ran>>
tvars == <<at, handleVars, timerVars, exitVars>>

\* vcos_platform_init has run: the key of the handles exists.
TInit ==
  /\ at = [t \in Threads |-> IF t \in Foreign THEN "runs" ELSE "out"]
  /\ handle = [t \in Threads |-> "none"] /\ semaphore = {} /\ started = Foreign
  /\ timer = [t \in Threads |-> "none"] /\ quit = {} /\ fires = [t \in Threads |-> 0]
  /\ atExit = [t \in Threads |-> <<>>] /\ ran = [t \in Threads |-> <<>>]
  /\ freedUsed = FALSE /\ failures = 0

Goto(t, place) == at' = [at EXCEPT ![t] = place]

-----------------------------------------------------------------------------
(* Making a thread                                                         *)

\* vcos_thread_create; it returns an error if there is no semaphore.
ThreadCreate(t) ==
  /\ t \in Created /\ at[t] = "out"
  /\ handle' = [handle EXCEPT ![t] = "live"]
  /\ semaphore' = semaphore \cup {t} /\ started' = started \cup {t}
  /\ Goto(t, "runs")
  /\ UNCHANGED <<freedUsed, failures, timerVars, exitVars>>

\* pthread_create returns a positive error, rc < 0 is not what it tests: the
\* caller is told that the thread is there.
ThreadCreateFails(t) ==
  /\ t \in Created /\ at[t] = "out" /\ failures < MaxFailures
  /\ failures' = failures + 1
  /\ handle' = [handle EXCEPT ![t] = "live"] /\ semaphore' = semaphore \cup {t}
  /\ Goto(t, "over")
  /\ UNCHANGED <<started, freedUsed, timerVars, exitVars>>

\* vcos_thread_current: vcos_dummy_thread_create the first time.
Adopted(t) ==
  /\ handle' = [handle EXCEPT ![t] = IF @ = "none" THEN "live" ELSE @]
  /\ semaphore' = IF handle[t] = "none" THEN semaphore \cup {t} ELSE semaphore

-----------------------------------------------------------------------------
(* What a thread does with its handle                                      *)

\* vcos_thread_at_exit; a function that runs at the exit may register another,
\* which the loop then finds.
AtExit(t) ==
  /\ at[t] \in {"runs", "exits"} /\ Len(atExit[t]) < MaxHandlers
  /\ IF Len(atExit[t]) < Slots
     THEN atExit' = [atExit EXCEPT ![t] = Append(@, Len(@) + 1)]
     ELSE UNCHANGED atExit \* VCOS_ENOSPC
  /\ Adopted(t)
  /\ UNCHANGED <<at, freedUsed, failures, started, timerVars, ran>>

\* _vcos_task_timer_set makes the timer and its thread the first time.
TaskTimerSet(t) ==
  /\ at[t] = "runs" /\ timer[t] \in {"none", "off"} /\ fires[t] < MaxFires
  /\ timer' = [timer EXCEPT ![t] = "set"]
  /\ Adopted(t)
  /\ UNCHANGED <<at, freedUsed, failures, started, quit, fires, exitVars>>

\* _vcos_task_timer_cancel waits for the timer's lock.
TaskTimerCancel(t) ==
  /\ at[t] = "runs" /\ timer[t] = "set"
  /\ timer' = [timer EXCEPT ![t] = "off"]
  /\ UNCHANGED <<at, handleVars, quit, fires, exitVars>>

\* _timer_thread: the routine runs with the timer's lock and reads the handle,
TimerFires(t) ==
  /\ timer[t] = "set" /\ t \notin quit
  /\ timer' = [timer EXCEPT ![t] = "fires"]
  /\ fires' = [fires EXCEPT ![t] = @ + 1]
  /\ freedUsed' = (freedUsed \/ handle[t] # "live")
  /\ UNCHANGED <<at, handle, semaphore, failures, started, quit, exitVars>>

\* and writes it before it goes back.
TimerFired(t) ==
  /\ timer[t] = "fires"
  /\ timer' = [timer EXCEPT ![t] = "off"]
  /\ freedUsed' = (freedUsed \/ handle[t] # "live")
  /\ UNCHANGED <<at, handle, semaphore, failures, started, quit, fires, exitVars>>

-----------------------------------------------------------------------------
(* Exit                                                                    *)

\* The thread's function returns.  A thread of the program without a handle has
\* nothing to do.
Return(t) ==
  /\ at[t] = "runs"
  /\ Goto(t, IF handle[t] = "none" THEN "gone" ELSE "exits")
  /\ UNCHANGED <<handleVars, timerVars, exitVars>>

\* vcos_thread_entry and vcos_dummy_thread_cleanup call the functions until a
\* slot is empty,
RunHandlers(t) ==
  /\ at[t] = "exits" /\ Len(ran[t]) < Len(atExit[t])
  /\ ran' = [ran EXCEPT ![t] = Append(@, atExit[t][Len(@) + 1])]
  /\ UNCHANGED <<at, handleVars, timerVars, atExit>>

\* Mutant: the first empty slot is not looked for.
HandlersDoneEarly(t) ==
  /\ at[t] = "exits" /\ (ran[t] # <<>> \/ atExit[t] = <<>>)
  /\ Goto(t, "over")
  /\ UNCHANGED <<handleVars, timerVars, exitVars>>

\* and read past the array if none is.
HandlersDone(t) ==
  /\ at[t] = "exits" /\ ran[t] = atExit[t]
  /\ Goto(t, IF Len(atExit[t]) = Slots THEN "astray" ELSE "over")
  /\ UNCHANGED <<handleVars, timerVars, exitVars>>

\* vcos_thread_exit of a thread made here ends it where it is; the handle of
\* another is freed and the key's destructor, which has its address, goes on.
ThreadExit(t) ==
  /\ at[t] = "runs"
  /\ \/ t \in Created /\ Goto(t, "over") /\ UNCHANGED <<handle, semaphore>>
     \/ /\ t \in Foreign /\ ForeignExits
        /\ handle' = [handle EXCEPT ![t] = "freed"] /\ UNCHANGED semaphore
        /\ Goto(t, "exits")
  /\ UNCHANGED <<freedUsed, failures, started, timerVars, exitVars>>

\* Mutant: the handle is freed without its timer.
CleanupKeepsTimer(t) ==
  /\ at[t] = "over"
  /\ freedUsed' = (freedUsed \/ t \notin started \/ handle[t] = "freed")
  /\ handle' = [handle EXCEPT ![t] = "freed"] /\ semaphore' = semaphore \ {t}
  /\ Goto(t, "gone")
  /\ UNCHANGED <<failures, started, timerVars, exitVars>>

\* vcos_thread_cleanup, from vcos_thread_join or the key's destructor: the
\* timer's thread is told to quit with the lock, and is joined.
Cleanup(t) ==
  /\ at[t] = "over" /\ timer[t] # "fires"
  /\ freedUsed' = (freedUsed \/ t \notin started \/ handle[t] = "freed")
  /\ quit' = IF timer[t] = "none" THEN quit ELSE quit \cup {t}
  /\ handle' = [handle EXCEPT ![t] = "freed"] /\ semaphore' = semaphore \ {t}
  /\ timer' = [timer EXCEPT ![t] = "none"]
  /\ Goto(t, "gone")
  /\ UNCHANGED <<failures, started, fires, exitVars>>

-----------------------------------------------------------------------------
ThNext == \E t \in Threads :
  \/ ThreadCreate(t) \/ ThreadCreateFails(t)
  \/ AtExit(t) \/ TaskTimerSet(t) \/ TaskTimerCancel(t) \/ TimerFires(t) \/ TimerFired(t)
  \/ Return(t) \/ RunHandlers(t) \/ HandlersDone(t) \/ ThreadExit(t) \/ Cleanup(t)

ThSpec == TInit /\ [][ThNext]_tvars

(* Every function registered runs once, in order, before the handle goes,  *)
(* the ones registered while the others run included, if the thread        *)
(* returned (vcos_thread_exit leaves them out).                            *)
HandlersRun == \A t \in Threads :
  /\ IsPrefix(ran[t], atExit[t])
  /\ at[t] \in {"over", "gone"} /\ ran[t] # <<>> => ran[t] = atExit[t]

(* No timer's thread, destructor or join uses a handle that is not there.  *)
HandleAlive == ~freedUsed

(* A thread that is gone has left no semaphore and no timer.               *)
NothingKept == \A t \in Threads : at[t] = "gone" => t \notin semaphore /\ timer[t] = "none"

(* The loop of the exit functions stops inside the array.                  *)
StaysInside == \A t \in Threads : at[t] # "astray"

\* What vcos_thread.h says of vcos_thread_at_exit: the functions are called
\* when the thread exits.
HandlersRunAtExit == \A t \in Threads : at[t] \in {"over", "gone"} => ran[t] = atExit[t]
=============================================================================
