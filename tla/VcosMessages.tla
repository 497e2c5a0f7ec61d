---------------------------- MODULE VcosMessages ----------------------------
(***************************************************************************)
(* Message queues, replies and message pools (vcos_msgqueue.c).  A queue   *)
(* is a list with its lock and a semaphore that counts its messages; the   *)
(* two are not changed in one step.  A message is replied to through its   *)
(* waiter: a semaphore on the sender's stack (vcos_msg_sendwait), the      *)
(* sender's own queue (vcos_msg_set_source), or the pool it came from.     *)
(***************************************************************************)
EXTENDS Integers, Sequences, FiniteSets, FiniteSetTheorems, SequenceTheorems,
  TLAPS

CONSTANTS
  Clients,     \* threads that send
  Servers,     \* threads that take messages from the server's queue
  PoolMsgs,    \* messages of a pool
  MaxSends,    \* bound: messages sent
  PeekAlways   \* may a message be peeked at while others wait for one?

Server == "server_queue"
Queues == {Server} \cup Clients
Threads == Clients \cup Servers
Msgs == Clients \cup PoolMsgs     \* a client's own message has its name
Free == "free"
NoMsg == "no_message"
\* A thread is a client or a server, and these names mean one thing each.
NamesApart ==
  /\ Clients \cap (Servers \cup PoolMsgs) = {}
  /\ Server \notin Clients /\ Free \notin Servers /\ NoMsg \notin Msgs

VARIABLES
  serving,         \* the servers that run
  list, sem, lock, \* of each queue
  waiter,          \* msg->waiter: "simple", "queue", "pool" or "none"
  waitsem,         \* semaphore of each client's VCOS_MSG_SIMPLE_WAITER_T
  poolFree, poolSem,
  at, msg, dest,   \* of each thread: where, with which message, to or from which queue
  sends

queueVars == <<list, sem, lock>>
poolVars == <<poolFree, poolSem>>
qvars == <<serving, queueVars, waiter, waitsem, poolVars, at, msg, dest, sends>>

MInit ==
  /\ serving \in SUBSET Servers \ {{}}
  /\ list = [q \in Queues |-> <<>>] /\ sem = [q \in Queues |-> 0]
  /\ lock = [q \in Queues |-> Free]
  /\ waiter = [m \in Msgs |-> "none"]
  /\ waitsem = [c \in Clients |-> 0]
  /\ poolFree = PoolMsgs /\ poolSem = Cardinality(PoolMsgs)
  /\ at = [t \in Threads |-> "idle"] /\ msg = [t \in Threads |-> NoMsg]
  /\ dest = [t \in Threads |-> Server]
  /\ sends = 0

Goto(t, place) == at' = [at EXCEPT ![t] = place]

-----------------------------------------------------------------------------
(* Queues                                                                  *)

\* msgq_append
MsgqAppend(t) ==
  LET q == dest[t] IN
  /\ at[t] = "append" /\ lock[q] = Free
  /\ list' = [list EXCEPT ![q] = Append(@, msg[t])]
  /\ Goto(t, "post")
  /\ UNCHANGED <<serving, sem, lock, waiter, waitsem, poolVars, msg, dest, sends>>

\* Mutant: nobody waits for a reply.
PostReturns(t) ==
  /\ at[t] = "post"
  /\ sem' = [sem EXCEPT ![dest[t]] = @ + 1]
  /\ Goto(t, "idle") /\ msg' = [msg EXCEPT ![t] = NoMsg]
  /\ UNCHANGED <<serving, list, lock, waiter, waitsem, poolVars, dest, sends>>

\* The semaphore is posted after the lock is given back; then a client waits
\* for the reply, if there is to be one.
Post(t) ==
  /\ at[t] = "post"
  /\ sem' = [sem EXCEPT ![dest[t]] = @ + 1]
  /\ IF t \in Clients /\ waiter[msg[t]] = "queue"
     THEN Goto(t, "wait") /\ dest' = [dest EXCEPT ![t] = t] /\ UNCHANGED msg
     ELSE IF t \in Clients /\ waiter[msg[t]] = "simple"
     THEN Goto(t, "wait_reply") /\ UNCHANGED <<dest, msg>>
     ELSE Goto(t, "idle") /\ msg' = [msg EXCEPT ![t] = NoMsg] /\ UNCHANGED dest
  /\ UNCHANGED <<serving, list, lock, waiter, waitsem, poolVars, sends>>

\* vcos_msg_wait: the semaphore, then the lock.
SemWait(t) ==
  /\ at[t] = "wait" /\ sem[dest[t]] > 0
  /\ sem' = [sem EXCEPT ![dest[t]] = @ - 1]
  /\ Goto(t, "take")
  /\ UNCHANGED <<serving, list, lock, waiter, waitsem, poolVars, msg, dest, sends>>

TakeMsg(t) ==
  LET q == dest[t] IN
  /\ at[t] = "take" /\ lock[q] = Free /\ list[q] # <<>>
  /\ list' = [list EXCEPT ![q] = Tail(@)]
  /\ IF t \in Clients
     THEN Goto(t, "idle") /\ msg' = [msg EXCEPT ![t] = NoMsg]
     ELSE Goto(t, "have") /\ msg' = [msg EXCEPT ![t] = Head(list[q])]
  /\ UNCHANGED <<serving, sem, lock, waiter, waitsem, poolVars, dest, sends>>

\* vcos_msg_peek: a message is taken with the lock, and the semaphore waited
\* for before the lock is given back.
Peek(t) ==
  /\ at[t] = "wait" /\ t \in Servers /\ (PeekAlways \/ serving = {t})
  /\ lock[Server] = Free /\ list[Server] # <<>>
  /\ list' = [list EXCEPT ![Server] = Tail(@)]
  /\ msg' = [msg EXCEPT ![t] = Head(list[Server])]
  /\ lock' = [lock EXCEPT ![Server] = t]
  /\ Goto(t, "peek")
  /\ UNCHANGED <<serving, sem, waiter, waitsem, poolVars, dest, sends>>

PeekSemWait(t) ==
  /\ at[t] = "peek" /\ sem[Server] > 0
  /\ sem' = [sem EXCEPT ![Server] = @ - 1]
  /\ lock' = [lock EXCEPT ![Server] = Free]
  /\ Goto(t, "have")
  /\ UNCHANGED <<serving, list, waiter, waitsem, poolVars, msg, dest, sends>>

-----------------------------------------------------------------------------
(* Clients                                                                 *)

\* vcos_msg_send_helper with the message m, whose waiter is set before.
SendHelper(c, m, w) ==
  /\ at' = [at EXCEPT ![c] = "append"] /\ dest' = [dest EXCEPT ![c] = Server]
  /\ msg' = [msg EXCEPT ![c] = m]
  /\ waiter' = [waiter EXCEPT ![m] = w]

\* vcos_msg_sendwait and vcos_msg_set_source with vcos_msg_send; the message
\* is initialised anew (vcos_msg_init), for its last waiter is still there.
Send(c, w) ==
  /\ at[c] = "idle" /\ sends < MaxSends /\ sends' = sends + 1
  /\ SendHelper(c, c, w)
  /\ UNCHANGED <<serving, queueVars, waitsem, poolVars>>

\* The reply of vcos_msg_sendwait came; its semaphore is deleted.
Replied(c) ==
  /\ at[c] = "wait_reply" /\ waitsem[c] > 0
  /\ waitsem' = [waitsem EXCEPT ![c] = 0]
  /\ Goto(c, "idle") /\ msg' = [msg EXCEPT ![c] = NoMsg]
  /\ UNCHANGED <<serving, queueVars, waiter, poolVars, dest, sends>>

\* Mutant: a block is taken without the semaphore.
PoolWaitUnchecked(c) ==
  /\ at[c] = "idle" /\ sends < MaxSends /\ sends' = sends + 1
  /\ Goto(c, "pool")
  /\ UNCHANGED <<serving, queueVars, waiter, waitsem, poolVars, msg, dest>>

\* vcos_msgq_pool_alloc, and vcos_msgq_pool_wait: the semaphore, then a block.
PoolWait(c) ==
  /\ at[c] = "idle" /\ sends < MaxSends /\ sends' = sends + 1
  /\ poolSem > 0 /\ poolSem' = poolSem - 1
  /\ Goto(c, "pool")
  /\ UNCHANGED <<serving, queueVars, waiter, waitsem, poolFree, msg, dest>>

PoolSend(c) ==
  /\ at[c] = "pool"
  /\ \E m \in poolFree : poolFree' = poolFree \ {m} /\ SendHelper(c, m, "pool")
  /\ UNCHANGED <<serving, queueVars, waitsem, poolSem, sends>>

-----------------------------------------------------------------------------
(* Servers                                                                 *)

Serve(t) ==
  /\ t \in serving /\ at[t] = "idle"
  /\ Goto(t, "wait") /\ dest' = [dest EXCEPT ![t] = Server]
  /\ UNCHANGED <<serving, queueVars, waiter, waitsem, poolVars, msg, sends>>

\* vcos_msg_reply: on_reply of the message's waiter.  The pool frees the
\* block (vcos_msgq_pool_on_reply),
Reply(t) ==
  LET m == msg[t] IN
  /\ at[t] = "have"
  /\ IF waiter[m] = "simple"
     THEN /\ waitsem' = [waitsem EXCEPT ![m] = @ + 1]
          /\ Goto(t, "idle") /\ msg' = [msg EXCEPT ![t] = NoMsg] /\ UNCHANGED <<dest, poolVars>>
     ELSE IF waiter[m] = "queue"
     THEN /\ Goto(t, "append") /\ dest' = [dest EXCEPT ![t] = m]
          /\ UNCHANGED <<msg, waitsem, poolVars>>
     ELSE /\ poolFree' = poolFree \cup {m} /\ Goto(t, "free")
          /\ UNCHANGED <<msg, dest, waitsem, poolSem>>
  /\ UNCHANGED <<serving, queueVars, waiter, sends>>

\* and then posts its semaphore.
PoolFree(t) ==
  /\ at[t] = "free"
  /\ poolSem' = poolSem + 1
  /\ Goto(t, "idle") /\ msg' = [msg EXCEPT ![t] = NoMsg]
  /\ UNCHANGED <<serving, queueVars, waiter, waitsem, poolFree, dest, sends>>

Runs(t) ==
  \/ MsgqAppend(t) \/ Post(t) \/ SemWait(t) \/ TakeMsg(t)
  \/ t \in Clients /\ (Replied(t) \/ PoolSend(t))
  \/ t \in Servers /\ (Serve(t) \/ Peek(t) \/ PeekSemWait(t) \/ Reply(t) \/ PoolFree(t))

MNext == \/ \E t \in Threads : Runs(t)
         \/ \E c \in Clients : PoolWait(c) \/ \E w \in {"simple", "queue"} : Send(c, w)

\* Threads run on.
MFair == \A t \in Threads : WF_qvars(Runs(t))
MSpec == MInit /\ [][MNext]_qvars
MFairSpec == MSpec /\ MFair

-----------------------------------------------------------------------------
(* Properties                                                              *)

\* Who was let through by a semaphore finds what it counts: a message in the
\* list, a block in the pool.
SomethingThere ==
  /\ \A q \in Queues : lock[q] = Free =>
       Len(list[q]) >= sem[q] + Cardinality({t \in Threads : at[t] = "take" /\ dest[t] = q})
  /\ Cardinality(poolFree) >= poolSem + Cardinality({c \in Clients : at[c] = "pool"})

\* A reply comes while its sender waits for it: the semaphore on the sender's
\* stack is there, and the message is not in use again.
SenderWaits ==
  \A m \in Clients :
    (\/ \E t \in Servers : msg[t] = m /\ at[t] # "post"
     \/ \E q \in Queues : \E i \in DOMAIN list[q] : list[q][i] = m)
      => at[m] \in {"post", "wait", "take", "wait_reply"} /\ msg[m] = m

\* The comment in vcos_msg_peek: the semaphore has a non-zero count.
PeekDoesNotBlock == \A t \in Servers : at[t] = "peek" => sem[Server] > 0

\* Every call ends, and every message is replied to.
CallsReturn == \A c \in Clients : []<>(at[c] = "idle")

-----------------------------------------------------------------------------
(* Proofs, for any clients, servers and messages of the pool: a message is *)
(* in one place at a time, and the semaphores count what there is less     *)
(* what a thread is between its two steps with.                            *)

InList(m, s) == \E i \in 1 .. Len(s) : s[i] = m
Unlike(s) == \A i, j \in 1 .. Len(s) : s[i] = s[j] => i = j

\* A list that is not empty.
LEMMA SomeLength ==
  ASSUME NEW S, NEW s \in Seq(S), s # <<>>
  PROVE  \E n \in Nat : n + 1 = Len(s)
<1>1. Len(s) \in Nat /\ Len(s) # 0
  OBVIOUS
<1>2. Len(s) - 1 \in Nat /\ (Len(s) - 1) + 1 = Len(s)
  BY <1>1
<1> QED
  BY <1>2

\* The end of a list, and its head.
LEMMA ListGrows ==
  ASSUME NEW S, NEW s \in Seq(S), NEW e \in S
  PROVE  /\ Append(s, e) \in Seq(S) /\ Len(Append(s, e)) = Len(s) + 1
         /\ \A m : InList(m, Append(s, e)) <=> (InList(m, s) \/ m = e)
         /\ Unlike(s) /\ ~InList(e, s) => Unlike(Append(s, e))
<1>1. PICK n \in Nat : n = Len(s)
  OBVIOUS
<1>2. PICK r : r = Append(s, e)
  OBVIOUS
<1>3. /\ r \in Seq(S) /\ Len(r) = n + 1 /\ r[n + 1] = e
      /\ \A i \in 1 .. n : r[i] = s[i]
  BY <1>1, <1>2, AppendProperties
<1>4. \A i \in 1 .. n + 1 : i \in 1 .. n \/ i = n + 1
  OBVIOUS
<1>5. ASSUME NEW m PROVE InList(m, r) <=> (InList(m, s) \/ m = e)
  <2>1. ASSUME InList(m, r) PROVE InList(m, s) \/ m = e
    <3>1. PICK i \in 1 .. n + 1 : r[i] = m
      BY <1>3, <2>1 DEF InList
    <3> QED
      BY <1>1, <1>3, <1>4, <3>1 DEF InList
  <2>2. ASSUME InList(m, s) PROVE InList(m, r)
    <3>1. PICK i \in 1 .. n : s[i] = m
      BY <1>1, <2>2 DEF InList
    <3>2. i \in 1 .. n + 1 /\ r[i] = m
      BY <1>3, <3>1
    <3> QED
      BY <1>3, <3>2 DEF InList
  <2>3. InList(e, r)
    <3>1. n + 1 \in 1 .. n + 1
      OBVIOUS
    <3> QED
      BY <1>3, <3>1 DEF InList
  <2> QED
    BY <2>1, <2>2, <2>3
<1>6. ASSUME Unlike(s), ~InList(e, s) PROVE Unlike(r)
  <2> SUFFICES ASSUME NEW i \in 1 .. n + 1, NEW j \in 1 .. n + 1, r[i] = r[j]
               PROVE  i = j
    BY <1>3 DEF Unlike
  <2>1. \A k \in 1 .. n : s[k] # e
    BY <1>1, <1>6 DEF InList
  <2> QED
    BY <1>1, <1>3, <1>4, <1>6, <2>1 DEF Unlike
<1> QED
  BY <1>1, <1>2, <1>3, <1>5, <1>6

LEMMA ListShrinks ==
  ASSUME NEW S, NEW s \in Seq(S), s # <<>>, Unlike(s)
  PROVE  /\ Tail(s) \in Seq(S) /\ Len(Tail(s)) + 1 = Len(s)
         /\ Head(s) \in S /\ InList(Head(s), s)
         /\ \A m : InList(m, Tail(s)) => InList(m, s) /\ m # Head(s)
         /\ Unlike(Tail(s))
<1>1. PICK n \in Nat : n + 1 = Len(s)
  BY SomeLength
<1>2. PICK r : r = Tail(s)
  OBVIOUS
<1>3. /\ r \in Seq(S) /\ Len(r) = n /\ Head(s) \in S /\ Head(s) = s[1]
      /\ \A i \in 1 .. n : r[i] = s[i + 1]
  BY <1>1, <1>2, HeadTailProperties
<1>4. \A i \in 1 .. n : i + 1 \in 1 .. n + 1 /\ i + 1 # 1
  OBVIOUS
<1>5. 1 \in 1 .. n + 1
  OBVIOUS
<1>6. ASSUME NEW m, InList(m, r) PROVE InList(m, s) /\ m # Head(s)
  <2>1. PICK i \in 1 .. n : r[i] = m
    BY <1>3, <1>6 DEF InList
  <2>2. s[i + 1] = m /\ i + 1 \in 1 .. n + 1 /\ i + 1 # 1
    BY <1>3, <1>4, <2>1
  <2> QED
    BY <1>1, <1>3, <1>5, <2>2 DEF InList, Unlike
<1>7. Unlike(r)
  <2> SUFFICES ASSUME NEW i \in 1 .. n, NEW j \in 1 .. n, r[i] = r[j]
               PROVE  i = j
    BY <1>3 DEF Unlike
  <2>1. i + 1 = j + 1
    BY <1>1, <1>3, <1>4 DEF Unlike
  <2> QED
    BY <2>1
<1>8. InList(Head(s), s)
  BY <1>1, <1>3, <1>5 DEF InList
<1> QED
  BY <1>1, <1>2, <1>3, <1>6, <1>7, <1>8

MessagesPlaces == {"idle", "pool", "append", "post", "wait", "take", "wait_reply", "peek",
                   "have", "free"}

MessagesType ==
  /\ list \in [Queues -> Seq(Msgs)]
  /\ sem \in [Queues -> Nat]
  /\ lock \in [Queues -> Servers \cup {Free}]
  /\ waiter \in [Msgs -> {"none", "simple", "queue", "pool"}]
  /\ waitsem \in [Clients -> Nat] /\ poolFree \subseteq PoolMsgs /\ poolSem \in Nat
  /\ at \in [Threads -> MessagesPlaces]
  /\ msg \in [Threads -> Msgs \cup {NoMsg}]
  /\ dest \in [Threads -> Queues]

\* Where a message is: in a queue, with a thread, in the pool, or answered.
Holding == {"append", "peek", "have"}
InPlace(m, k, x) ==
  \/ k = "queue" /\ x \in Queues /\ InList(m, list[x])
  \/ k = "thread" /\ x \in Threads /\ at[x] \in Holding /\ msg[x] = m
  \/ k = "pool" /\ x = "pool" /\ m \in poolFree
  \/ k = "reply" /\ x = "reply" /\ m \in Clients /\ waitsem[m] > 0

\* A message is in one place, once.
ListsUnlike == \A q \in Queues : Unlike(list[q])
OnePlace ==
  \A m \in Msgs : \A k, l, x, y :
    InPlace(m, k, x) /\ InPlace(m, l, y) => k = l /\ x = y

\* A client's own message that is under way is waited for.
Expects(c) == at[c] \in {"post", "wait", "take", "wait_reply"} /\ msg[c] = c
OwnerWaits ==
  \A c \in Clients : \A k, x :
    InPlace(c, k, x) => (k = "thread" /\ x = c) \/ Expects(c)

ClientState(c) ==
  /\ at[c] \in {"idle", "pool", "append", "post", "wait", "take", "wait_reply"}
  /\ at[c] \in {"append", "post"} =>
       msg[c] \in {c} \cup PoolMsgs /\ dest[c] = Server
  /\ at[c] \in {"wait", "take", "wait_reply"} => msg[c] = c
  /\ at[c] \in {"wait", "take"} => dest[c] = c
  /\ msg[c] = c => waiter[c] # "none"
  /\ waiter[c] # "pool"
  /\ lock[c] = Free
  /\ \A m : InList(m, list[c]) => m = c

ServerState(t) ==
  /\ at[t] \in {"idle", "wait", "take", "peek", "have", "append", "post", "free"}
  /\ at[t] \in {"idle", "wait", "take"} => msg[t] = NoMsg
  /\ at[t] \in {"wait", "take"} => dest[t] = Server
  /\ at[t] = "peek" => lock[Server] = t
  /\ at[t] \in {"peek", "have"} => msg[t] \in Msgs
  /\ at[t] \in {"append", "post"} => msg[t] \in Clients /\ dest[t] = msg[t]
  /\ at[t] = "free" => msg[t] \in PoolMsgs

StatesRight ==
  /\ \A c \in Clients : ClientState(c)
  /\ \A t \in Servers : ServerState(t)
  /\ \A m \in PoolMsgs : waiter[m] \in {"none", "pool"}

\* Who was let through a semaphore, or will let somebody through.
Between(q) == {t \in Threads :
                 at[t] \in {"take", "post"} /\ dest[t] = q}
BetweenPool == {t \in Threads : at[t] \in {"pool", "free"}}
LockHeld(q) == IF lock[q] = Free THEN 0 ELSE 1

CountedAt(q) ==
  /\ IsFiniteSet(Between(q))
  /\ Len(list[q]) + LockHeld(q) = sem[q] + Cardinality(Between(q))
QueuesCounted == \A q \in Queues : CountedAt(q)
PoolCounted ==
  /\ IsFiniteSet(poolFree) /\ IsFiniteSet(BetweenPool)
  /\ Cardinality(poolFree) = poolSem + Cardinality(BetweenPool)

MessagesInv ==
  /\ MessagesType /\ ListsUnlike /\ OnePlace /\ OwnerWaits /\ StatesRight
  /\ QueuesCounted /\ PoolCounted

LEMMA MessagesStart ==
  ASSUME MInit, IsFiniteSet(PoolMsgs), NamesApart
  PROVE  MessagesInv
<1>1. /\ list = [q \in Queues |-> <<>>]
      /\ sem = [q \in Queues |-> 0]
      /\ lock = [q \in Queues |-> Free]
      /\ waiter = [m \in Msgs |-> "none"]
      /\ waitsem = [c \in Clients |-> 0]
      /\ poolFree = PoolMsgs /\ poolSem = Cardinality(PoolMsgs)
      /\ at = [t \in Threads |-> "idle"]
      /\ msg = [t \in Threads |-> NoMsg]
      /\ dest = [t \in Threads |-> Server]
  BY DEF MInit
<1>2. MessagesType
  BY <1>1, FS_CardinalityType DEF MessagesType, MessagesPlaces, Queues
<1>3. \A m : ~InList(m, <<>>)
  BY DEF InList
<1>4. ListsUnlike
  BY <1>1 DEF ListsUnlike, Unlike
<1>5. \A m, k, x : InPlace(m, k, x) => k = "pool" /\ x = "pool" /\ m \in PoolMsgs
  BY <1>1, <1>3 DEF InPlace, Holding
<1>6. OnePlace /\ OwnerWaits
  BY <1>5 DEF OnePlace, OwnerWaits, NamesApart
<1>7. StatesRight
  BY <1>1, <1>3 DEF StatesRight, ClientState, ServerState, NamesApart,
    Queues, Threads, Msgs
<1>8. QueuesCounted
  <2> SUFFICES ASSUME NEW q \in Queues PROVE CountedAt(q)
    BY DEF QueuesCounted
  <2>1. Between(q) = {}
    BY <1>1 DEF Between
  <2> QED
    BY <1>1, <2>1, FS_EmptySet DEF CountedAt, LockHeld
<1>9. PoolCounted
  <2>1. BetweenPool = {}
    BY <1>1 DEF BetweenPool
  <2> QED
    BY <1>1, <2>1, FS_EmptySet, FS_CardinalityType DEF PoolCounted
<1> QED
  BY <1>2, <1>4, <1>6, <1>7, <1>8, <1>9 DEF MessagesInv

\* Message m goes to the place k, x and every other one stays or is gone.
Goes(m, k, x) ==
  \A n \in Msgs : \A l, y :
    InPlace(n, l, y)' => IF n = m THEN l = k /\ y = x ELSE InPlace(n, l, y)

\* Thread t goes on; the others are where they were, with their messages.
OnlyMoves(t) ==
  /\ t \in Threads
  /\ \A u \in Threads \ {t} : /\ at'[u] = at[u]
                                       /\ msg'[u] = msg[u]
                                       /\ dest'[u] = dest[u]

LEMMA MessageGoes ==
  ASSUME OnePlace, NEW m, NEW k, NEW x, Goes(m, k, x)
  PROVE  OnePlace'
<1> SUFFICES ASSUME NEW n \in Msgs, NEW k1, NEW l1, NEW x1, NEW y1,
                    InPlace(n, k1, x1)', InPlace(n, l1, y1)'
             PROVE  k1 = l1 /\ x1 = y1
  BY Zenon DEF OnePlace
<1>1. \A l, y : InPlace(n, l, y)' =>
        IF n = m THEN l = k /\ y = x ELSE InPlace(n, l, y)
  BY DEF Goes
<1>2. CASE n = m
  BY <1>1, <1>2
<1>3. CASE n # m
  <2>1. InPlace(n, k1, x1) /\ InPlace(n, l1, y1)
    BY <1>1, <1>3
  <2> QED
    BY <2>1 DEF OnePlace
<1> QED
  BY <1>2, <1>3

LEMMA OwnerMoves ==
  ASSUME OwnerWaits, NEW t, OnlyMoves(t), NEW m, NEW k, NEW x, Goes(m, k, x),
         m \in Clients => \/ k = "thread" /\ x = m
                          \/ Expects(m)'
                          \/ ~InPlace(m, k, x)',
         t \in Clients /\ t # m /\ Expects(t) => Expects(t)'
  PROVE  OwnerWaits'
<1> SUFFICES ASSUME NEW c \in Clients, NEW l, NEW y, InPlace(c, l, y)'
             PROVE  (l = "thread" /\ y = c) \/ Expects(c)'
  BY Zenon DEF OwnerWaits
<1>0. c \in Msgs /\ c \in Threads
  BY DEF Msgs, Threads
<1>1. CASE c = m
  <2>1. l = k /\ y = x
    BY <1>0, <1>1, Zenon DEF Goes
  <2> QED
    BY <1>1, <2>1
<1>2. CASE c # m
  <2>1. InPlace(c, l, y)
    BY <1>0, <1>2, Zenon DEF Goes
  <2>2. (l = "thread" /\ y = c) \/ Expects(c)
    BY <2>1, Zenon DEF OwnerWaits
  <2>3. CASE c = t
    BY <1>2, <2>2, <2>3
  <2>4. CASE c # t
    <3>1. at'[c] = at[c] /\ msg'[c] = msg[c]
      BY <1>0, <2>4 DEF OnlyMoves
    <3> QED
      BY <2>2, <3>1 DEF Expects
  <2> QED
    BY <2>3, <2>4
<1> QED
  BY <1>1, <1>2

\* Nothing goes anywhere while a thread that keeps what it has moves.
LEMMA NothingGoes ==
  ASSUME MessagesType, NamesApart, NEW t, OnlyMoves(t),
         UNCHANGED <<list, poolFree, waitsem>>,
         at'[t] \in Holding => at[t] \in Holding /\ msg'[t] = msg[t]
  PROVE  Goes(NoMsg, "none", "none")
<1> SUFFICES ASSUME NEW n \in Msgs, NEW l, NEW y, InPlace(n, l, y)'
             PROVE  InPlace(n, l, y)
  BY DEF Goes, NamesApart
<1>1. CASE l = "thread"
  BY <1>1 DEF InPlace, OnlyMoves
<1>2. CASE l # "thread"
  BY <1>2 DEF InPlace
<1> QED
  BY <1>1, <1>2

\* The threads: who does not move is as it was.
LEMMA StatesMove ==
  ASSUME StatesRight, NamesApart, NEW t, OnlyMoves(t),
         t \in Clients => ClientState(t)', t \in Servers => ServerState(t)',
         \A c \in Clients \ {t} :
           /\ waiter'[c] = waiter[c] /\ lock'[c] = lock[c]
           /\ \A m : InList(m, list'[c]) => InList(m, list[c]) \/ m = c,
         \A u \in Servers \ {t} : at[u] = "peek" =>
           lock'[Server] = lock[Server],
         \A m \in PoolMsgs : waiter'[m] \in {waiter[m], "pool"}
  PROVE  StatesRight'
<1>1. ASSUME NEW c \in Clients PROVE ClientState(c)'
  <2>1. CASE c = t
    BY <2>1
  <2>2. CASE c # t
    <3>1. /\ at'[c] = at[c] /\ msg'[c] = msg[c]
          /\ dest'[c] = dest[c]
      BY <2>2 DEF OnlyMoves, Threads
    <3>2. ClientState(c)
      BY DEF StatesRight
    <3> QED
      BY <2>2, <3>1, <3>2 DEF ClientState
  <2> QED
    BY <2>1, <2>2
<1>2. ASSUME NEW u \in Servers PROVE ServerState(u)'
  <2>1. CASE u = t
    BY <2>1
  <2>2. CASE u # t
    <3>1. /\ at'[u] = at[u] /\ msg'[u] = msg[u]
          /\ dest'[u] = dest[u]
      BY <2>2 DEF OnlyMoves, Threads
    <3>2. ServerState(u)
      BY DEF StatesRight
    <3> QED
      BY <2>2, <3>1, <3>2 DEF ServerState
  <2> QED
    BY <2>1, <2>2
<1>3. \A m \in PoolMsgs : waiter'[m] \in {"none", "pool"}
  BY DEF StatesRight
<1> QED
  BY <1>1, <1>2, <1>3 DEF StatesRight

\* A thread that is not between the two steps of a queue comes between them,
\* or leaves; or nothing changes for the queue.
LEMMA BetweenStays ==
  ASSUME NEW q, NEW t, OnlyMoves(t), t \in Between(q)' <=> t \in Between(q)
  PROVE  Between(q)' = Between(q)
BY DEF Between, OnlyMoves

LEMMA BetweenComes ==
  ASSUME NEW q, NEW t, OnlyMoves(t), CountedAt(q), t \notin Between(q), t \in Between(q)'
  PROVE  /\ IsFiniteSet(Between(q)') /\ Cardinality(Between(q)) \in Nat
         /\ Cardinality(Between(q)') = Cardinality(Between(q)) + 1
<1>1. Between(q)' = Between(q) \cup {t}
  BY DEF Between, OnlyMoves
<1> QED
  BY <1>1, FS_AddElement, FS_CardinalityType DEF CountedAt

LEMMA BetweenLeaves ==
  ASSUME NEW q, NEW t, OnlyMoves(t), CountedAt(q), t \in Between(q), t \notin Between(q)'
  PROVE  /\ IsFiniteSet(Between(q)') /\ Cardinality(Between(q)) \in Nat
         /\ Cardinality(Between(q)') + 1 = Cardinality(Between(q))
<1>1. Between(q)' = Between(q) \ {t}
  BY DEF Between, OnlyMoves
<1>2. /\ IsFiniteSet(Between(q)') /\ Cardinality(Between(q)) \in Nat
      /\ Cardinality(Between(q)') = Cardinality(Between(q)) - 1
  BY <1>1, FS_RemoveElement, FS_CardinalityType DEF CountedAt
<1> QED
  BY <1>2

\* A queue at which nothing happens.
LEMMA QueueStays ==
  ASSUME NEW q, NEW t, OnlyMoves(t), CountedAt(q), t \in Between(q)' <=> t \in Between(q),
         list'[q] = list[q], sem'[q] = sem[q],
         lock'[q] = lock[q]
  PROVE  CountedAt(q)'
<1>1. Between(q)' = Between(q)
  BY BetweenStays
<1> QED
  BY <1>1 DEF CountedAt, LockHeld

\* A pool at which nothing happens.
LEMMA PoolStays ==
  ASSUME PoolCounted, NEW t, OnlyMoves(t), UNCHANGED <<poolFree, poolSem>>,
         at[t] \in {"pool", "free"} <=> at'[t] \in {"pool", "free"}
  PROVE  PoolCounted'
<1>1. BetweenPool' = BetweenPool
  BY DEF BetweenPool, OnlyMoves
<1> QED
  BY <1>1 DEF PoolCounted

LEMMA PoolComes ==
  ASSUME PoolCounted, NEW t, OnlyMoves(t), t \notin BetweenPool, t \in BetweenPool'
  PROVE  /\ IsFiniteSet(BetweenPool') /\ Cardinality(BetweenPool) \in Nat
         /\ Cardinality(BetweenPool') = Cardinality(BetweenPool) + 1
<1>1. BetweenPool' = BetweenPool \cup {t}
  BY DEF BetweenPool, OnlyMoves
<1> QED
  BY <1>1, FS_AddElement, FS_CardinalityType DEF PoolCounted

LEMMA PoolLeaves ==
  ASSUME PoolCounted, NEW t, OnlyMoves(t), t \in BetweenPool, t \notin BetweenPool'
  PROVE  /\ IsFiniteSet(BetweenPool') /\ Cardinality(BetweenPool) \in Nat
         /\ Cardinality(BetweenPool') + 1 = Cardinality(BetweenPool)
<1>1. BetweenPool' = BetweenPool \ {t}
  BY DEF BetweenPool, OnlyMoves
<1>2. /\ IsFiniteSet(BetweenPool') /\ Cardinality(BetweenPool) \in Nat
      /\ Cardinality(BetweenPool') = Cardinality(BetweenPool) - 1
  BY <1>1, FS_RemoveElement, FS_CardinalityType DEF PoolCounted
<1> QED
  BY <1>2

\* What is known of a thread, and of the message it holds.
LEMMA ThreadFacts ==
  ASSUME MessagesInv, NamesApart, NEW t \in Threads
  PROVE  /\ t \in Clients \/ t \in Servers
         /\ t \in Clients => t \notin Servers /\ ClientState(t)
         /\ t \in Servers => t \notin Clients /\ ServerState(t)
         /\ dest[t] \in Queues
         /\ at[t] \in Holding =>
              /\ msg[t] \in Msgs /\ InPlace(msg[t], "thread", t)
              /\ \A l, y : InPlace(msg[t], l, y) => l = "thread" /\ y = t
              /\ msg[t] \in Clients /\ msg[t] # t => Expects(msg[t])
<1>1. t \in Clients \/ t \in Servers
  BY DEF Threads
<1>2. t \in Clients => t \notin Servers /\ ClientState(t)
  BY DEF MessagesInv, StatesRight, NamesApart
<1>3. t \in Servers => t \notin Clients /\ ServerState(t)
  BY DEF MessagesInv, StatesRight, NamesApart
<1>4. dest[t] \in Queues
  BY DEF MessagesInv, MessagesType
<1>5. ASSUME at[t] \in Holding
      PROVE  /\ msg[t] \in Msgs /\ InPlace(msg[t], "thread", t)
             /\ \A l, y : InPlace(msg[t], l, y) => l = "thread" /\ y = t
             /\ msg[t] \in Clients /\ msg[t] # t => Expects(msg[t])
  <2>1. msg[t] \in Msgs
    BY <1>1, <1>2, <1>3, <1>5 DEF Holding, ClientState, ServerState, Msgs
  <2>2. InPlace(msg[t], "thread", t)
    BY <1>5 DEF InPlace
  <2>3. PICK m \in Msgs : m = msg[t]
    BY <2>1
  <2>4. \A l, y : InPlace(m, l, y) => l = "thread" /\ y = t
    BY <2>2, <2>3 DEF MessagesInv, OnePlace
  <2>5. m \in Clients /\ m # t => Expects(m)
    BY <2>2, <2>3 DEF MessagesInv, OwnerWaits
  <2> QED
    BY <2>1, <2>2, <2>3, <2>4, <2>5
<1> QED
  BY <1>1, <1>2, <1>3, <1>4, <1>5

\* A message goes from its thread to the end of a queue.
LEMMA MessageAppended ==
  ASSUME MessagesInv, NamesApart, NEW t \in Threads,
         MsgqAppend(t)
  PROVE  MessagesInv'
<1>1. PICK q \in Queues, m \in Msgs :
        /\ q = dest[t] /\ m = msg[t] /\ at[t] = "append"
        /\ list' = [list EXCEPT ![q] = Append(@, m)]
        /\ at' = [at EXCEPT ![t] = "post"]
        /\ UNCHANGED <<sem, lock, waiter, waitsem, poolFree, poolSem,
                       msg, dest>>
  BY ThreadFacts DEF MsgqAppend, Goto, poolVars, Holding
<1>2. MessagesType /\ OnePlace /\ OwnerWaits /\ StatesRight /\ PoolCounted
  BY DEF MessagesInv
<1>3. /\ list \in [Queues -> Seq(Msgs)]
      /\ at \in [Threads -> MessagesPlaces]
      /\ list[q] \in Seq(Msgs) /\ Unlike(list[q])
  BY <1>2 DEF MessagesType, MessagesInv, ListsUnlike
<1>4. /\ InPlace(m, "thread", t)
      /\ \A l, y : InPlace(m, l, y) => l = "thread" /\ y = t
      /\ m \in Clients /\ m # t => Expects(m)
  BY <1>1, ThreadFacts DEF Holding
<1>5. /\ t \in Clients => t \notin Servers /\ ClientState(t)
      /\ t \in Servers => t \notin Clients /\ ServerState(t)
      /\ t \in Clients \/ t \in Servers
  BY ThreadFacts
<1>6. OnlyMoves(t) /\ at'[t] = "post"
  BY <1>1, <1>3 DEF OnlyMoves
<1>7. \A r \in Queues : ~InList(m, list[r])
  <2>1. ASSUME NEW r \in Queues, InList(m, list[r]) PROVE FALSE
    <3>1. InPlace(m, "queue", r)
      BY <2>1 DEF InPlace
    <3> QED
      BY <1>4, <3>1
  <2> QED
    BY <2>1
<1>8. /\ list'[q] \in Seq(Msgs)
      /\ Len(list'[q]) = Len(list[q]) + 1
      /\ \A n : InList(n, list'[q]) <=> (InList(n, list[q]) \/ n = m)
      /\ Unlike(list'[q])
      /\ \A r \in Queues \ {q} : list'[r] = list[r]
  <2>1. list'[q] = Append(list[q], m)
    BY <1>1, <1>3
  <2>2. \A r \in Queues \ {q} : list'[r] = list[r]
    BY <1>1, <1>3
  <2> QED
    BY <1>3, <1>7, <2>1, <2>2, ListGrows
<1>9. MessagesType'
  <2>1. list' \in [Queues -> Seq(Msgs)]
    BY <1>1, <1>3, <1>8
  <2> QED
    BY <1>1, <1>2, <2>1 DEF MessagesType, MessagesPlaces
<1>10. ListsUnlike'
  BY <1>8 DEF MessagesInv, ListsUnlike
<1>11. Goes(m, "queue", q)
  <2> SUFFICES ASSUME NEW n \in Msgs, NEW l, NEW y, InPlace(n, l, y)'
               PROVE  IF n = m THEN l = "queue" /\ y = q ELSE InPlace(n, l, y)
    BY DEF Goes
  <2>1. CASE l = "queue"
    <3>1. y \in Queues /\ InList(n, list'[y])
      BY <2>1 DEF InPlace
    <3> QED
      BY <1>7, <1>8, <2>1, <3>1 DEF InPlace
  <2>2. CASE l # "queue"
    <3>1. InPlace(n, l, y) /\ ~(l = "thread" /\ y = t)
      BY <1>1, <1>6, <2>2 DEF InPlace, OnlyMoves, Holding
    <3> QED
      BY <1>4, <3>1
  <2> QED
    BY <2>1, <2>2
<1>12. m \in Clients => Expects(m)'
  <2>1. CASE m = t
    BY <1>1, <1>6, <2>1 DEF Expects
  <2>2. ASSUME m # t, m \in Clients PROVE Expects(m)'
    BY <1>4, <1>6, <2>2 DEF Expects, OnlyMoves, Threads
  <2> QED
    BY <2>1, <2>2
<1>13. ~Expects(t)
  BY <1>1 DEF Expects
<1>14. OnePlace' /\ OwnerWaits'
  BY <1>2, <1>6, <1>11, <1>12, <1>13, MessageGoes, OwnerMoves
<1>15. StatesRight'
  <2>1. t \in Clients => q = Server /\ q \notin Clients
    BY <1>1, <1>5 DEF ClientState, NamesApart
  <2>2. t \in Clients => list'[t] = list[t]
    BY <1>8, <2>1 DEF Queues
  <2>3. t \in Clients => ClientState(t)'
    BY <1>1, <1>5, <1>6, <2>2 DEF ClientState
  <2>4. t \in Servers => ServerState(t)'
    BY <1>1, <1>5, <1>6 DEF ServerState
  <2>5. ASSUME NEW c \in Clients \ {t}, NEW n, InList(n, list'[c])
        PROVE  InList(n, list[c]) \/ n = c
    <3>1. CASE c = q
      <4>1. t \in Servers
        BY <1>5, <2>1, <3>1
      <4>2. m = q
        BY <1>1, <1>5, <4>1 DEF ServerState
      <4> QED
        BY <1>8, <2>5, <3>1, <4>2
    <3>2. CASE c # q
      BY <1>8, <2>5, <3>2 DEF Queues
    <3> QED
      BY <3>1, <3>2
  <2>6. /\ \A c \in Clients \ {t} :
             waiter'[c] = waiter[c] /\ lock'[c] = lock[c]
        /\ lock'[Server] = lock[Server]
        /\ \A n \in PoolMsgs : waiter'[n] \in {waiter[n], "pool"}
    BY <1>1
  <2> QED
    BY <1>2, <1>6, <2>3, <2>4, <2>5, <2>6, StatesMove
<1>16. QueuesCounted'
  <2> SUFFICES ASSUME NEW r \in Queues PROVE CountedAt(r)'
    BY DEF QueuesCounted
  <2>1. CountedAt(r) /\ sem[r] \in Nat
    BY <1>2 DEF MessagesInv, QueuesCounted, MessagesType
  <2>2. CASE r = q
    <3>1. t \notin Between(q) /\ t \in Between(q)'
      BY <1>1, <1>6 DEF Between
    <3>2. /\ IsFiniteSet(Between(q)') /\ Cardinality(Between(q)) \in Nat
          /\ Cardinality(Between(q)') = Cardinality(Between(q)) + 1
      BY <1>6, <2>1, <2>2, <3>1, BetweenComes
    <3>3. /\ sem'[q] = sem[q] /\ LockHeld(q)' = LockHeld(q)
          /\ Len(list[q]) \in Nat /\ LockHeld(q) \in Nat
      BY <1>1, <1>3 DEF LockHeld
    <3>4. Len(list[q]) + LockHeld(q) = sem[q] + Cardinality(Between(q))
      BY <2>1, <2>2 DEF CountedAt
    <3>5. sem[q] \in Nat /\ Len(list'[q]) = Len(list[q]) + 1
      BY <1>8, <2>1, <2>2
    <3>6. Len(list'[q]) + LockHeld(q)' = sem'[q] + Cardinality(Between(q)')
      BY ONLY <3>2, <3>3, <3>4, <3>5
    <3> QED
      BY <2>2, <3>2, <3>6 DEF CountedAt
  <2>3. CASE r # q
    <3>1. t \in Between(r)' <=> t \in Between(r)
      BY <1>1, <1>6, <2>3 DEF Between
    <3> QED
      BY <1>1, <1>6, <1>8, <2>1, <2>3, <3>1, QueueStays
  <2> QED
    BY <2>2, <2>3
<1>17. PoolCounted'
  BY <1>1, <1>2, <1>6, PoolStays
<1> QED
  BY <1>9, <1>10, <1>14, <1>15, <1>16, <1>17 DEF MessagesInv

\* The first message of a queue is taken from it by a thread that keeps it or not.
LEMMA HeadLeaves ==
  ASSUME MessagesInv, NEW t, OnlyMoves(t), NEW q \in Queues,
         list[q] # <<>>, NEW m, m = Head(list[q]),
         list' = [list EXCEPT ![q] = Tail(@)],
         UNCHANGED <<poolFree, waitsem>>, at[t] \notin Holding,
         at'[t] \in Holding => msg'[t] = m
  PROVE  /\ m \in Msgs /\ InList(m, list[q])
         /\ m \in Clients => Expects(m)
         /\ list' \in [Queues -> Seq(Msgs)]
         /\ Len(list'[q]) + 1 = Len(list[q])
         /\ \A r \in Queues \ {q} : list'[r] = list[r]
         /\ \A r \in Queues : \A n : InList(n, list'[r]) => InList(n, list[r])
         /\ ListsUnlike'
         /\ Goes(m, "thread", t)
         /\ at'[t] \notin Holding => \A l, y : ~InPlace(m, l, y)'
<1>1. /\ list \in [Queues -> Seq(Msgs)]
      /\ list[q] \in Seq(Msgs)
      /\ \A r \in Queues : Unlike(list[r])
  BY DEF MessagesInv, MessagesType, ListsUnlike
<1>2. /\ list'[q] = Tail(list[q])
      /\ \A r \in Queues \ {q} : list'[r] = list[r]
  BY <1>1
<1>3. /\ list'[q] \in Seq(Msgs)
      /\ Len(list'[q]) + 1 = Len(list[q])
      /\ m \in Msgs /\ InList(m, list[q])
      /\ \A n : InList(n, list'[q]) => InList(n, list[q]) /\ n # m
      /\ Unlike(list'[q])
  BY <1>1, <1>2, ListShrinks
<1>4. list' \in [Queues -> Seq(Msgs)]
  BY <1>1, <1>2, <1>3
<1>5. /\ \A r \in Queues : \A n : InList(n, list'[r]) => InList(n, list[r])
      /\ ListsUnlike'
  BY <1>1, <1>2, <1>3 DEF ListsUnlike
<1>6. \A l, y : InPlace(m, l, y) => l = "queue" /\ y = q
  <2>1. InPlace(m, "queue", q)
    BY <1>3 DEF InPlace
  <2> QED
    BY <1>3, <2>1 DEF MessagesInv, OnePlace
<1>7. m \in Clients => Expects(m)
  <2>1. InPlace(m, "queue", q)
    BY <1>3 DEF InPlace
  <2> QED
    BY <2>1 DEF MessagesInv, OwnerWaits
<1>8. ASSUME NEW n \in Msgs, NEW l, NEW y, InPlace(n, l, y)'
      PROVE  IF n = m THEN l = "thread" /\ y = t /\ at'[t] \in Holding
             ELSE InPlace(n, l, y)
  <2>1. CASE l = "queue"
    <3>1. y \in Queues /\ InList(n, list'[y])
      BY <1>8, <2>1 DEF InPlace
    <3>2. InList(n, list[y])
      BY <1>5, <3>1
    <3>3. InPlace(n, l, y)
      BY <2>1, <3>1, <3>2 DEF InPlace
    <3>4. n # m
      BY <1>3, <1>6, <3>1, <3>3
    <3> QED
      BY <3>3, <3>4
  <2>2. CASE l = "thread" /\ y = t
    BY <1>8, <2>2 DEF InPlace
  <2>3. CASE l # "queue" /\ ~(l = "thread" /\ y = t)
    <3>1. InPlace(n, l, y)
      BY <1>8, <2>3 DEF InPlace, OnlyMoves
    <3> QED
      BY <1>6, <2>3, <3>1
  <2> QED
    BY <2>1, <2>2, <2>3
<1>9. Goes(m, "thread", t)
  BY <1>8 DEF Goes
<1>10. at'[t] \notin Holding => \A l, y : ~InPlace(m, l, y)'
  BY <1>3, <1>8
<1> QED
  BY <1>2, <1>3, <1>4, <1>5, <1>7, <1>9, <1>10

\* Other threads than t and other queues than q stay as they were.
LEMMA RestStays ==
  ASSUME StatesRight, QueuesCounted, NamesApart, NEW t, OnlyMoves(t),
         NEW q \in Queues, CountedAt(q)',
         t \in Clients => ClientState(t)', t \in Servers => ServerState(t)',
         \A r \in Queues \ {q} :
           /\ sem'[r] = sem[r]
           /\ list'[r] = list[r]
           /\ t \in Between(r)' <=> t \in Between(r),
         \A r \in Queues :
           /\ r # Server => lock'[r] = lock[r]
           /\ r # q => lock'[r] = lock[r]
           /\ \A n : InList(n, list'[r]) => InList(n, list[r]),
         \A u \in Servers \ {t} : at[u] = "peek" =>
           lock'[Server] = lock[Server],
         waiter' = waiter
  PROVE  StatesRight' /\ QueuesCounted'
<1>1. QueuesCounted'
  <2> SUFFICES ASSUME NEW r \in Queues, r # q PROVE CountedAt(r)'
    BY DEF QueuesCounted
  <2>1. CountedAt(r)
    BY DEF QueuesCounted
  <2> QED
    BY <2>1, QueueStays
<1>2. \A c \in Clients \ {t} :
        /\ waiter'[c] = waiter[c] /\ lock'[c] = lock[c]
        /\ \A n : InList(n, list'[c]) => InList(n, list[c]) \/ n = c
  BY DEF Queues, NamesApart
<1>3. \A n \in PoolMsgs : waiter'[n] \in {waiter[n], "pool"}
  OBVIOUS
<1>4. StatesRight'
  BY <1>2, <1>3, StatesMove
<1> QED
  BY <1>1, <1>4

LEMMA BothLess ==
  ASSUME NEW x \in Nat, NEW y \in Nat, NEW k \in Nat, NEW z \in Nat,
         NEW u \in Nat, NEW v \in Nat, x + 1 = y, u + 1 = v, y + k = z + v
  PROVE  x + k = z + u
OBVIOUS

\* A client takes the reply, a server a message.
LEMMA MessageTaken ==
  ASSUME MessagesInv, NamesApart, NEW t \in Threads,
         TakeMsg(t)
  PROVE  MessagesInv'
<1>1. PICK q, m :
        /\ q \in Queues
        /\ q = dest[t] /\ list[q] # <<>> /\ m = Head(list[q])
        /\ at[t] = "take"
        /\ list' = [list EXCEPT ![q] = Tail(@)]
        /\ \/ /\ t \in Clients /\ at' = [at EXCEPT ![t] = "idle"]
              /\ msg' = [msg EXCEPT ![t] = NoMsg]
           \/ /\ t \notin Clients /\ at' = [at EXCEPT ![t] = "have"]
              /\ msg' = [msg EXCEPT ![t] = m]
        /\ UNCHANGED <<sem, lock, waiter, waitsem, poolFree, poolSem,
                       dest>>
  BY ThreadFacts DEF TakeMsg, Goto, poolVars
<1>2. MessagesType /\ OnePlace /\ OwnerWaits /\ StatesRight /\ PoolCounted /\ QueuesCounted
  BY DEF MessagesInv
<1>3. /\ at \in [Threads -> MessagesPlaces]
      /\ msg \in [Threads -> Msgs \cup {NoMsg}]
  BY <1>2 DEF MessagesType
<1>4. /\ t \in Clients => t \notin Servers /\ ClientState(t)
      /\ t \in Servers => t \notin Clients /\ ServerState(t)
      /\ t \in Clients \/ t \in Servers
  BY ThreadFacts
<1>5. /\ OnlyMoves(t)
      /\ t \in Clients => at'[t] = "idle" /\ msg'[t] = NoMsg
      /\ t \notin Clients => at'[t] = "have" /\ msg'[t] = m
  BY <1>1, <1>3 DEF OnlyMoves
<1>6. at[t] \notin Holding /\ (at'[t] \in Holding => msg'[t] = m)
  BY <1>1, <1>5 DEF Holding
<1>7. /\ m \in Msgs /\ InList(m, list[q])
      /\ m \in Clients => Expects(m)
      /\ list' \in [Queues -> Seq(Msgs)]
      /\ Len(list'[q]) + 1 = Len(list[q])
      /\ \A r \in Queues \ {q} : list'[r] = list[r]
      /\ \A r \in Queues : \A n : InList(n, list'[r]) => InList(n, list[r])
      /\ ListsUnlike'
      /\ Goes(m, "thread", t)
      /\ at'[t] \notin Holding => \A l, y : ~InPlace(m, l, y)'
  BY <1>1, <1>5, <1>6, HeadLeaves
<1>8. MessagesType'
  <2>1. at' \in [Threads -> MessagesPlaces]
    BY <1>1, <1>3 DEF MessagesPlaces
  <2>2. msg' \in [Threads -> Msgs \cup {NoMsg}]
    BY <1>1, <1>3, <1>7
  <2> QED
    BY <1>1, <1>2, <1>7, <2>1, <2>2 DEF MessagesType
<1>9. OnePlace' /\ OwnerWaits'
  <2>1. t \in Clients => m = t
    BY <1>1, <1>4, <1>7 DEF ClientState
  <2>2. CASE t \in Clients
    <3>1. ~InPlace(m, "thread", t)'
      BY <1>5, <1>7, <2>2 DEF Holding
    <3> QED
      BY <1>2, <1>5, <1>7, <2>1, <2>2, <3>1, MessageGoes, OwnerMoves
  <2>3. CASE t \notin Clients
    <3>1. m \in Clients => Expects(m)'
      BY <1>5, <1>7, <2>3 DEF Expects, OnlyMoves, Threads
    <3> QED
      BY <1>2, <1>5, <1>7, <2>3, <3>1, MessageGoes, OwnerMoves
  <2> QED
    BY <2>2, <2>3
<1>10. /\ t \in Clients => ClientState(t)'
       /\ t \in Servers => ServerState(t)'
  <2>1. t \in Clients => ClientState(t)'
    BY <1>1, <1>4, <1>5, <1>7 DEF ClientState, NamesApart, Queues,
      Msgs
  <2>2. t \in Servers => ServerState(t)'
    BY <1>1, <1>4, <1>5, <1>7 DEF ServerState
  <2> QED
    BY <2>1, <2>2
<1>11. CountedAt(q)'
  <2>1. CountedAt(q)
    BY <1>1, <1>2 DEF QueuesCounted
  <2>2. t \in Between(q) /\ t \notin Between(q)'
    BY <1>1, <1>5 DEF Between
  <2>3. /\ IsFiniteSet(Between(q)') /\ Cardinality(Between(q)) \in Nat
        /\ Cardinality(Between(q)') + 1 = Cardinality(Between(q))
    BY <1>5, <2>1, <2>2, BetweenLeaves
  <2>4. /\ sem'[q] = sem[q] /\ LockHeld(q)' = LockHeld(q)
        /\ LockHeld(q) \in Nat /\ sem[q] \in Nat
    BY <1>1, <1>2 DEF LockHeld, MessagesType
  <2>5. /\ Len(list[q]) \in Nat /\ Len(list'[q]) \in Nat
        /\ Len(list'[q]) + 1 = Len(list[q])
    BY <1>2, <1>7 DEF MessagesType
  <2>6. Cardinality(Between(q)') \in Nat
    BY <2>3, FS_CardinalityType
  <2>7. Len(list[q]) + LockHeld(q) = sem[q] + Cardinality(Between(q))
    BY <2>1 DEF CountedAt
  <2>8. Len(list'[q]) + LockHeld(q)' = sem'[q] + Cardinality(Between(q)')
    <3>1. PICK x \in Nat : x = Len(list'[q])
      BY <2>5
    <3>2. PICK y \in Nat : y = Len(list[q])
      BY <2>5
    <3>3. PICK k \in Nat : k = LockHeld(q)
      BY <2>4
    <3>4. PICK z \in Nat : z = sem[q]
      BY <2>4
    <3>5. PICK u \in Nat : u = Cardinality(Between(q)')
      BY <2>6
    <3>6. PICK v \in Nat : v = Cardinality(Between(q))
      BY <2>3
    <3>7. x + 1 = y /\ u + 1 = v /\ y + k = z + v
      BY <2>3, <2>5, <2>7, <3>1, <3>2, <3>3, <3>4, <3>5, <3>6
    <3>8. x + k = z + u
      BY ONLY <3>7, BothLess
    <3> QED
      BY <2>4, <3>1, <3>3, <3>4, <3>5, <3>8
  <2> QED
    BY <2>3, <2>8 DEF CountedAt
<1>12. StatesRight' /\ QueuesCounted'
  <2>1. \A r \in Queues \ {q} : t \in Between(r)' <=> t \in Between(r)
    BY <1>1, <1>5 DEF Between
  <2> QED
    BY <1>1, <1>2, <1>5, <1>7, <1>10, <1>11, <2>1, RestStays
<1>13. PoolCounted'
  BY <1>1, <1>2, <1>5, PoolStays
<1> QED
  BY <1>7, <1>8, <1>9, <1>12, <1>13 DEF MessagesInv

\* Where no queue changes, and the thread was and is between no two steps.
LEMMA QueuesStay ==
  ASSUME QueuesCounted, ListsUnlike, NEW t, OnlyMoves(t),
         UNCHANGED <<list, sem, lock>>,
         at[t] \notin {"take", "post"}, at'[t] \notin {"take", "post"}
  PROVE  QueuesCounted' /\ ListsUnlike'
<1>1. ASSUME NEW q \in Queues PROVE CountedAt(q)'
  <2>1. CountedAt(q) /\ (t \in Between(q)' <=> t \in Between(q))
    BY DEF QueuesCounted, Between
  <2> QED
    BY <2>1, QueueStays
<1> QED
  BY <1>1 DEF QueuesCounted, ListsUnlike

\* The semaphore is posted after the list has changed.
LEMMA MessagePosted ==
  ASSUME MessagesInv, NamesApart, NEW t \in Threads,
         Post(t)
  PROVE  MessagesInv'
<1>1. /\ at[t] = "post"
      /\ sem' = [sem EXCEPT ![dest[t]] = @ + 1]
      /\ UNCHANGED <<list, lock, waiter, waitsem, poolFree, poolSem>>
  BY DEF Post, poolVars
<1>2. MessagesType /\ OnePlace /\ OwnerWaits /\ StatesRight /\ PoolCounted /\ QueuesCounted
      /\ ListsUnlike
  BY DEF MessagesInv
<1>3. /\ at \in [Threads -> MessagesPlaces]
      /\ msg \in [Threads -> Msgs \cup {NoMsg}]
      /\ dest \in [Threads -> Queues]
      /\ sem \in [Queues -> Nat]
      /\ waiter \in [Msgs -> {"none", "simple", "queue", "pool"}]
      /\ lock \in [Queues -> Servers \cup {Free}]
  BY <1>2 DEF MessagesType
<1>4. /\ t \in Clients => t \notin Servers /\ ClientState(t)
      /\ t \in Servers => t \notin Clients /\ ServerState(t)
      /\ t \in Clients \/ t \in Servers
  BY ThreadFacts
<1>5. /\ at' = [at EXCEPT ![t] = at'[t]]
      /\ msg' = [msg EXCEPT ![t] = msg'[t]]
      /\ dest' = [dest EXCEPT ![t] = dest'[t]]
      /\ \/ /\ t \in Clients /\ waiter[msg[t]] = "queue"
            /\ at'[t] = "wait" /\ dest'[t] = t /\ msg'[t] = msg[t]
         \/ /\ t \in Clients /\ waiter[msg[t]] = "simple"
            /\ at'[t] = "wait_reply" /\ dest'[t] = dest[t]
            /\ msg'[t] = msg[t]
         \/ /\ ~(t \in Clients /\ waiter[msg[t]] \in {"queue", "simple"})
            /\ at'[t] = "idle" /\ msg'[t] = NoMsg
            /\ dest'[t] = dest[t]
  BY <1>3 DEF Post, Goto
<1>6. OnlyMoves(t)
  BY <1>3, <1>5 DEF OnlyMoves
<1>7. /\ t \in Clients /\ msg[t] = t => waiter[msg[t]] \in {"queue", "simple"}
      /\ t \in Clients /\ msg[t] # t => waiter[msg[t]] \notin {"queue", "simple"}
  <2>1. ASSUME t \in Clients, msg[t] = t PROVE waiter[msg[t]] \in {"queue", "simple"}
    BY <1>3, <1>4, <2>1 DEF ClientState, Msgs
  <2>2. ASSUME t \in Clients, msg[t] # t
        PROVE  waiter[msg[t]] \notin {"queue", "simple"}
    <3>1. msg[t] \in PoolMsgs
      BY <1>1, <1>4, <2>2 DEF ClientState
    <3> QED
      BY <1>2, <3>1 DEF StatesRight
  <2> QED
    BY <2>1, <2>2
<1>8. /\ at'[t] \in {"wait", "wait_reply", "idle"}
      /\ t \in Clients /\ msg[t] = t =>
           /\ at'[t] \in {"wait", "wait_reply"} /\ msg'[t] = t
           /\ at'[t] = "wait" => dest'[t] = t
      /\ ~(t \in Clients /\ msg[t] = t) => at'[t] = "idle" /\ msg'[t] = NoMsg
      /\ t \in Clients => t \in Queues
  BY <1>5, <1>7 DEF Queues
<1>9. MessagesType'
  <2>1. at'[t] \in MessagesPlaces
    BY <1>8 DEF MessagesPlaces
  <2>2. msg'[t] \in Msgs \cup {NoMsg} /\ dest'[t] \in Queues
    BY <1>3, <1>5, <1>8
  <2>3. at' \in [Threads -> MessagesPlaces]
    BY <1>3, <1>5, <2>1
  <2>4. msg' \in [Threads -> Msgs \cup {NoMsg}]
    BY <1>3, <1>5, <2>2
  <2>5. dest' \in [Threads -> Queues]
    BY <1>3, <1>5, <2>2
  <2>6. sem' \in [Queues -> Nat]
    BY <1>1, <1>3
  <2> QED
    BY <1>1, <1>2, <2>3, <2>4, <2>5, <2>6 DEF MessagesType
<1>10. OnePlace' /\ OwnerWaits'
  <2>1. Goes(NoMsg, "none", "none")
    BY <1>1, <1>2, <1>6, <1>8, NothingGoes DEF Holding
  <2>2. NoMsg \notin Clients
    BY DEF NamesApart, Msgs
  <2>3. t \in Clients /\ Expects(t) => Expects(t)'
    BY <1>8 DEF Expects
  <2> QED
    BY <1>2, <1>6, <2>1, <2>2, <2>3, MessageGoes, OwnerMoves
<1>11. /\ t \in Clients => ClientState(t)'
       /\ t \in Servers => ServerState(t)'
  <2>1. ASSUME t \in Clients PROVE ClientState(t)'
    BY <1>1, <1>4, <1>8, <2>1 DEF ClientState, NamesApart, Msgs
  <2>2. ASSUME t \in Servers PROVE ServerState(t)'
    BY <1>4, <1>8, <2>2 DEF ServerState
  <2> QED
    BY <2>1, <2>2
<1>12. PICK q \in Queues : q = dest[t]
  BY <1>3
<1>13. CountedAt(q)'
  <2>1. CountedAt(q)
    BY <1>2 DEF QueuesCounted
  <2>2. t \in Between(q) /\ t \notin Between(q)'
    BY <1>1, <1>8, <1>12 DEF Between
  <2>3. /\ IsFiniteSet(Between(q)') /\ Cardinality(Between(q)) \in Nat
        /\ Cardinality(Between(q)') + 1 = Cardinality(Between(q))
    BY <1>6, <2>1, <2>2, BetweenLeaves
  <2>4. /\ sem'[q] = sem[q] + 1 /\ LockHeld(q)' = LockHeld(q)
        /\ sem[q] \in Nat /\ list' = list
    BY <1>1, <1>3, <1>12 DEF LockHeld
  <2>5. Len(list[q]) + LockHeld(q) = sem[q] + Cardinality(Between(q))
    BY <2>1 DEF CountedAt
  <2>6. PICK u \in Nat : u = Cardinality(Between(q)')
    BY <2>3, FS_CardinalityType
  <2>7. sem[q] + Cardinality(Between(q)) = (sem[q] + 1) + u
    BY <2>3, <2>4, <2>6
  <2> QED
    BY <2>3, <2>4, <2>5, <2>6, <2>7 DEF CountedAt
<1>14. StatesRight' /\ QueuesCounted'
  <2>1. \A r \in Queues \ {q} : /\ sem'[r] = sem[r]
                                         /\ (t \in Between(r)' <=> t \in Between(r))
    BY <1>1, <1>3, <1>8, <1>12 DEF Between
  <2> QED
    BY <1>1, <1>2, <1>6, <1>11, <1>13, <2>1, RestStays
<1>15. PoolCounted'
  BY <1>1, <1>2, <1>6, <1>8, PoolStays
<1>16. ListsUnlike'
  BY <1>1, <1>2 DEF ListsUnlike
<1> QED
  BY <1>9, <1>10, <1>14, <1>15, <1>16 DEF MessagesInv

\* Who waits for a message is let through.
LEMMA MessageAwaited ==
  ASSUME MessagesInv, NamesApart, NEW t \in Threads,
         SemWait(t)
  PROVE  MessagesInv'
<1>1. /\ at[t] = "wait" /\ sem[dest[t]] > 0
      /\ sem' = [sem EXCEPT ![dest[t]] = @ - 1]
      /\ at' = [at EXCEPT ![t] = "take"]
      /\ UNCHANGED <<list, lock, waiter, waitsem, poolFree, poolSem,
                     msg, dest>>
  BY DEF SemWait, poolVars, Goto
<1>2. MessagesType /\ OnePlace /\ OwnerWaits /\ StatesRight /\ PoolCounted /\ QueuesCounted
      /\ ListsUnlike
  BY DEF MessagesInv
<1>3. /\ at \in [Threads -> MessagesPlaces]
      /\ sem \in [Queues -> Nat]
      /\ dest \in [Threads -> Queues]
  BY <1>2 DEF MessagesType
<1>4. /\ t \in Clients => t \notin Servers /\ ClientState(t)
      /\ t \in Servers => t \notin Clients /\ ServerState(t)
  BY ThreadFacts
<1>5. OnlyMoves(t) /\ at'[t] = "take"
  BY <1>1, <1>3 DEF OnlyMoves
<1>6. PICK q \in Queues : q = dest[t]
  BY <1>3
<1>7. MessagesType'
  <2>1. sem' \in [Queues -> Nat]
    BY <1>1, <1>3, <1>6
  <2> QED
    BY <1>1, <1>2, <2>1 DEF MessagesType, MessagesPlaces
<1>8. OnePlace' /\ OwnerWaits'
  <2>1. Goes(NoMsg, "none", "none")
    BY <1>1, <1>2, <1>5, NothingGoes DEF Holding
  <2>2. NoMsg \notin Clients
    BY DEF NamesApart, Msgs
  <2>3. Expects(t) => Expects(t)'
    BY <1>1, <1>5 DEF Expects
  <2> QED
    BY <1>2, <1>5, <2>1, <2>2, <2>3, MessageGoes, OwnerMoves
<1>9. /\ t \in Clients => ClientState(t)'
      /\ t \in Servers => ServerState(t)'
  BY <1>1, <1>4, <1>5 DEF ClientState, ServerState
<1>10. CountedAt(q)'
  <2>1. CountedAt(q)
    BY <1>2 DEF QueuesCounted
  <2>2. t \notin Between(q) /\ t \in Between(q)'
    BY <1>1, <1>5, <1>6 DEF Between
  <2>3. /\ IsFiniteSet(Between(q)') /\ Cardinality(Between(q)) \in Nat
        /\ Cardinality(Between(q)') = Cardinality(Between(q)) + 1
    BY <1>5, <2>1, <2>2, BetweenComes
  <2>4. /\ sem'[q] = sem[q] - 1 /\ LockHeld(q)' = LockHeld(q)
        /\ sem[q] \in Nat /\ list' = list
    BY <1>1, <1>3, <1>6 DEF LockHeld
  <2>5. Len(list[q]) + LockHeld(q) = sem[q] + Cardinality(Between(q))
    BY <2>1 DEF CountedAt
  <2>6. sem[q] + Cardinality(Between(q))
          = (sem[q] - 1) + (Cardinality(Between(q)) + 1)
    BY <2>3, <2>4
  <2> QED
    BY <2>3, <2>4, <2>5, <2>6 DEF CountedAt
<1>11. StatesRight' /\ QueuesCounted'
  <2>1. \A r \in Queues \ {q} : /\ sem'[r] = sem[r]
                                         /\ (t \in Between(r)' <=> t \in Between(r))
    BY <1>1, <1>3, <1>5, <1>6 DEF Between
  <2> QED
    BY <1>1, <1>2, <1>5, <1>9, <1>10, <2>1, RestStays
<1>12. PoolCounted'
  BY <1>1, <1>2, <1>5, PoolStays
<1>13. ListsUnlike'
  BY <1>1, <1>2 DEF ListsUnlike
<1> QED
  BY <1>7, <1>8, <1>11, <1>12, <1>13 DEF MessagesInv

\* A server peeks: it takes a message with the lock, before the semaphore.
LEMMA MessagePeeked ==
  ASSUME MessagesInv, NamesApart, NEW t \in Threads,
         t \in Servers, Peek(t)
  PROVE  MessagesInv'
<1>1. PICK q, m :
        /\ q \in Queues /\ q = Server
        /\ list[q] # <<>> /\ m = Head(list[q])
        /\ at[t] = "wait" /\ lock[q] = Free
        /\ list' = [list EXCEPT ![q] = Tail(@)]
        /\ at' = [at EXCEPT ![t] = "peek"]
        /\ msg' = [msg EXCEPT ![t] = m]
        /\ lock' = [lock EXCEPT ![q] = t]
        /\ UNCHANGED <<sem, waiter, waitsem, poolFree, poolSem, dest>>
  BY DEF Peek, Goto, poolVars, Queues
<1>2. MessagesType /\ OnePlace /\ OwnerWaits /\ StatesRight /\ PoolCounted /\ QueuesCounted
  BY DEF MessagesInv
<1>3. /\ at \in [Threads -> MessagesPlaces]
      /\ msg \in [Threads -> Msgs \cup {NoMsg}]
      /\ lock \in [Queues -> Servers \cup {Free}]
  BY <1>2 DEF MessagesType
<1>4. t \notin Clients /\ ServerState(t) /\ t # Free
  BY ThreadFacts DEF NamesApart
<1>5. OnlyMoves(t) /\ at'[t] = "peek" /\ msg'[t] = m
  BY <1>1, <1>3 DEF OnlyMoves
<1>6. at[t] \notin Holding
  BY <1>1 DEF Holding
<1>7. /\ m \in Msgs /\ InList(m, list[q])
      /\ m \in Clients => Expects(m)
      /\ list' \in [Queues -> Seq(Msgs)]
      /\ Len(list'[q]) + 1 = Len(list[q])
      /\ \A r \in Queues \ {q} : list'[r] = list[r]
      /\ \A r \in Queues : \A n : InList(n, list'[r]) => InList(n, list[r])
      /\ ListsUnlike'
      /\ Goes(m, "thread", t)
  BY <1>1, <1>5, <1>6, HeadLeaves
<1>8. /\ lock'[q] = t
      /\ \A r \in Queues \ {q} : lock'[r] = lock[r]
  BY <1>1, <1>3
<1>9. MessagesType'
  <2>1. at' \in [Threads -> MessagesPlaces]
    BY <1>1, <1>3 DEF MessagesPlaces
  <2>2. msg' \in [Threads -> Msgs \cup {NoMsg}]
    BY <1>1, <1>3, <1>7
  <2>3. lock' \in [Queues -> Servers \cup {Free}]
    BY <1>1, <1>3
  <2> QED
    BY <1>1, <1>2, <1>7, <2>1, <2>2, <2>3 DEF MessagesType
<1>10. OnePlace' /\ OwnerWaits'
  <2>1. m \in Clients => Expects(m)'
    BY <1>4, <1>5, <1>7 DEF Expects, OnlyMoves, Threads
  <2> QED
    BY <1>2, <1>4, <1>5, <1>7, <2>1, MessageGoes, OwnerMoves
<1>11. ServerState(t)'
  BY <1>1, <1>5, <1>7, <1>8 DEF ServerState
<1>12. \A r \in Queues : t \in Between(r)' <=> t \in Between(r)
  BY <1>1, <1>5 DEF Between
<1>13. CountedAt(q)'
  <2>1. CountedAt(q)
    BY <1>1, <1>2 DEF QueuesCounted
  <2>2. Between(q)' = Between(q)
    BY <1>1, <1>5, <1>12, BetweenStays
  <2>3. LockHeld(q)' = 1 /\ LockHeld(q) = 0 /\ sem'[q] = sem[q]
    BY <1>1, <1>4, <1>8 DEF LockHeld
  <2>4. Len(list[q]) \in Nat /\ Len(list'[q]) \in Nat
    BY <1>1, <1>2, <1>7 DEF MessagesType
  <2>5. Len(list'[q]) + LockHeld(q)' = Len(list[q]) + LockHeld(q)
    BY <1>7, <2>3, <2>4
  <2> QED
    BY <2>1, <2>2, <2>3, <2>5 DEF CountedAt
<1>14. \A u \in Servers : at[u] # "peek"
  BY <1>1, <1>2 DEF StatesRight, ServerState, NamesApart
<1>15. StatesRight' /\ QueuesCounted'
  BY <1>1, <1>2, <1>4, <1>5, <1>7, <1>8, <1>11, <1>12, <1>13, <1>14, RestStays
<1>16. PoolCounted'
  BY <1>1, <1>2, <1>5, PoolStays
<1> QED
  BY <1>7, <1>9, <1>10, <1>15, <1>16 DEF MessagesInv

\* And then waits for the semaphore, and gives the lock back.
LEMMA MessagePeekedAt ==
  ASSUME MessagesInv, NamesApart, NEW t \in Threads,
         t \in Servers, PeekSemWait(t)
  PROVE  MessagesInv'
<1>1. PICK q :
        /\ q \in Queues /\ q = Server
        /\ at[t] = "peek" /\ sem[q] > 0
        /\ sem' = [sem EXCEPT ![q] = @ - 1]
        /\ at' = [at EXCEPT ![t] = "have"]
        /\ lock' = [lock EXCEPT ![q] = Free]
        /\ UNCHANGED <<list, waiter, waitsem, poolFree, poolSem, msg,
                       dest>>
  BY DEF PeekSemWait, Goto, poolVars, Queues
<1>2. MessagesType /\ OnePlace /\ OwnerWaits /\ StatesRight /\ PoolCounted /\ QueuesCounted
      /\ ListsUnlike
  BY DEF MessagesInv
<1>3. /\ at \in [Threads -> MessagesPlaces]
      /\ sem \in [Queues -> Nat]
      /\ lock \in [Queues -> Servers \cup {Free}]
  BY <1>2 DEF MessagesType
<1>4. t \notin Clients /\ ServerState(t) /\ t # Free
  BY ThreadFacts DEF NamesApart
<1>5. OnlyMoves(t) /\ at'[t] = "have" /\ msg'[t] = msg[t]
  BY <1>1, <1>3 DEF OnlyMoves
<1>6. lock[q] = t
  BY <1>1, <1>4 DEF ServerState
<1>7. /\ lock'[q] = Free
      /\ \A r \in Queues \ {q} :
           lock'[r] = lock[r] /\ sem'[r] = sem[r]
  BY <1>1, <1>3
<1>8. MessagesType'
  <2>1. at' \in [Threads -> MessagesPlaces]
    BY <1>1, <1>3 DEF MessagesPlaces
  <2>2. sem' \in [Queues -> Nat]
    BY <1>1, <1>3
  <2>3. lock' \in [Queues -> Servers \cup {Free}]
    BY <1>1, <1>3
  <2> QED
    BY <1>1, <1>2, <2>1, <2>2, <2>3 DEF MessagesType
<1>9. OnePlace' /\ OwnerWaits'
  <2>1. Goes(NoMsg, "none", "none")
    BY <1>1, <1>2, <1>5, NothingGoes DEF Holding
  <2>2. NoMsg \notin Clients
    BY DEF NamesApart, Msgs
  <2> QED
    BY <1>2, <1>4, <1>5, <2>1, <2>2, MessageGoes, OwnerMoves
<1>10. ServerState(t)'
  BY <1>1, <1>4, <1>5 DEF ServerState
<1>11. \A r \in Queues : t \in Between(r)' <=> t \in Between(r)
  BY <1>1, <1>5 DEF Between
<1>12. CountedAt(q)'
  <2>1. CountedAt(q)
    BY <1>1, <1>2 DEF QueuesCounted
  <2>2. Between(q)' = Between(q)
    BY <1>1, <1>5, <1>11, BetweenStays
  <2>3. LockHeld(q)' = 0 /\ LockHeld(q) = 1
    BY <1>4, <1>6, <1>7 DEF LockHeld
  <2>4. sem'[q] = sem[q] - 1 /\ sem[q] \in Nat
    BY <1>1, <1>3
  <2>5. PICK x \in Nat : x = Len(list[q])
    BY <1>1, <1>2 DEF MessagesType
  <2>6. PICK y \in Nat : y = Cardinality(Between(q))
    BY <2>1, FS_CardinalityType DEF CountedAt
  <2>7. x + 1 = sem[q] + y
    BY <2>1, <2>3, <2>5, <2>6 DEF CountedAt
  <2>8. x + 0 = (sem[q] - 1) + y
    BY <2>4, <2>7
  <2> QED
    BY <1>1, <2>1, <2>2, <2>3, <2>4, <2>5, <2>6, <2>8 DEF CountedAt
<1>13. \A u \in Servers \ {t} : at[u] # "peek"
  BY <1>1, <1>2, <1>6 DEF StatesRight, ServerState
<1>14. StatesRight' /\ QueuesCounted'
  BY <1>1, <1>2, <1>4, <1>5, <1>7, <1>10, <1>11, <1>12, <1>13, RestStays
<1>15. PoolCounted'
  BY <1>1, <1>2, <1>5, PoolStays
<1>16. ListsUnlike'
  BY <1>1, <1>2 DEF ListsUnlike
<1> QED
  BY <1>8, <1>9, <1>14, <1>15, <1>16 DEF MessagesInv

\* A client sends its own message: it is idle, so nothing of it is under way.
LEMMA MessageSent ==
  ASSUME MessagesInv, NamesApart, NEW c \in Clients,
         NEW w \in {"simple", "queue"}, Send(c, w)
  PROVE  MessagesInv'
<1>1. /\ at[c] = "idle"
      /\ at' = [at EXCEPT ![c] = "append"]
      /\ dest' = [dest EXCEPT ![c] = Server]
      /\ msg' = [msg EXCEPT ![c] = c]
      /\ waiter' = [waiter EXCEPT ![c] = w]
      /\ UNCHANGED <<list, sem, lock, waitsem, poolFree, poolSem>>
  BY DEF Send, SendHelper, queueVars, poolVars
<1>2. MessagesType /\ OnePlace /\ OwnerWaits /\ StatesRight /\ PoolCounted /\ QueuesCounted
      /\ ListsUnlike
  BY DEF MessagesInv
<1>3. /\ at \in [Threads -> MessagesPlaces]
      /\ msg \in [Threads -> Msgs \cup {NoMsg}]
      /\ dest \in [Threads -> Queues]
      /\ waiter \in [Msgs -> {"none", "simple", "queue", "pool"}]
  BY <1>2 DEF MessagesType
<1>4. c \in Threads /\ c \in Msgs /\ Server \in Queues
  BY DEF Threads, Msgs, Queues
<1>5. ClientState(c) /\ c \notin Servers
  BY <1>4, ThreadFacts
<1>6. /\ OnlyMoves(c) /\ at'[c] = "append" /\ msg'[c] = c
      /\ dest'[c] = Server /\ waiter'[c] = w
      /\ \A m \in Msgs \ {c} : waiter'[m] = waiter[m]
  BY <1>1, <1>3, <1>4 DEF OnlyMoves
<1>7. MessagesType'
  <2>1. at' \in [Threads -> MessagesPlaces]
    BY <1>1, <1>3 DEF MessagesPlaces
  <2>2. /\ msg' \in [Threads -> Msgs \cup {NoMsg}]
        /\ dest' \in [Threads -> Queues]
        /\ waiter' \in [Msgs -> {"none", "simple", "queue", "pool"}]
    BY <1>1, <1>3, <1>4
  <2> QED
    BY <1>1, <1>2, <2>1, <2>2 DEF MessagesType
<1>8. \A l, y : ~InPlace(c, l, y)
  <2>1. ASSUME NEW l, NEW y, InPlace(c, l, y) PROVE FALSE
    <3>1. ~Expects(c)
      BY <1>1 DEF Expects
    <3>2. l = "thread" /\ y = c
      BY <1>2, <2>1, <3>1, Zenon DEF OwnerWaits
    <3> QED
      BY <1>1, <2>1, <3>2 DEF InPlace, Holding
  <2> QED
    BY <2>1
<1>9. Goes(c, "thread", c)
  <2> SUFFICES ASSUME NEW n \in Msgs, NEW l, NEW y, InPlace(n, l, y)'
               PROVE  IF n = c THEN l = "thread" /\ y = c ELSE InPlace(n, l, y)
    BY DEF Goes
  <2>1. CASE l = "thread" /\ y = c
    BY <1>6, <2>1 DEF InPlace
  <2>2. CASE ~(l = "thread" /\ y = c)
    <3>1. InPlace(n, l, y)
      BY <1>1, <1>6, <2>2 DEF InPlace, OnlyMoves
    <3> QED
      BY <1>8, <3>1
  <2> QED
    BY <2>1, <2>2
<1>10. OnePlace' /\ OwnerWaits'
  BY <1>2, <1>6, <1>9, MessageGoes, OwnerMoves
<1>11. StatesRight'
  <2>1. ClientState(c)'
    BY <1>1, <1>5, <1>6 DEF ClientState
  <2>2. /\ \A d \in Clients \ {c} : waiter'[d] = waiter[d]
        /\ \A m \in PoolMsgs : waiter'[m] = waiter[m]
    BY <1>6 DEF Msgs, NamesApart
  <2>3. lock' = lock /\ list' = list
    BY <1>1
  <2> QED
    BY <1>2, <1>5, <1>6, <2>1, <2>2, <2>3, StatesMove
<1>12. QueuesCounted' /\ ListsUnlike'
  BY <1>1, <1>2, <1>6, QueuesStay
<1>13. PoolCounted'
  BY <1>1, <1>2, <1>6, PoolStays
<1> QED
  BY <1>7, <1>10, <1>11, <1>12, <1>13 DEF MessagesInv

\* The reply came: the message is gone.
LEMMA MessageReplied ==
  ASSUME MessagesInv, NamesApart, NEW c \in Clients, Replied(c)
  PROVE  MessagesInv'
<1>1. /\ at[c] = "wait_reply" /\ waitsem[c] > 0
      /\ waitsem' = [waitsem EXCEPT ![c] = 0]
      /\ at' = [at EXCEPT ![c] = "idle"]
      /\ msg' = [msg EXCEPT ![c] = NoMsg]
      /\ UNCHANGED <<list, sem, lock, waiter, poolFree, poolSem,
                     dest>>
  BY DEF Replied, Goto, queueVars, poolVars
<1>2. MessagesType /\ OnePlace /\ OwnerWaits /\ StatesRight /\ PoolCounted /\ QueuesCounted
      /\ ListsUnlike
  BY DEF MessagesInv
<1>3. /\ at \in [Threads -> MessagesPlaces]
      /\ msg \in [Threads -> Msgs \cup {NoMsg}]
      /\ waitsem \in [Clients -> Nat]
  BY <1>2 DEF MessagesType
<1>4. c \in Threads /\ c \in Msgs
  BY DEF Threads, Msgs
<1>5. ClientState(c) /\ c \notin Servers
  BY <1>4, ThreadFacts
<1>6. /\ OnlyMoves(c) /\ at'[c] = "idle" /\ msg'[c] = NoMsg
      /\ waitsem'[c] = 0 /\ \A d \in Clients \ {c} : waitsem'[d] = waitsem[d]
  BY <1>1, <1>3, <1>4 DEF OnlyMoves
<1>7. MessagesType'
  <2>1. at' \in [Threads -> MessagesPlaces]
    BY <1>1, <1>3 DEF MessagesPlaces
  <2>2. /\ msg' \in [Threads -> Msgs \cup {NoMsg}]
        /\ waitsem' \in [Clients -> Nat]
    BY <1>1, <1>3
  <2> QED
    BY <1>1, <1>2, <2>1, <2>2 DEF MessagesType
<1>8. \A l, y : InPlace(c, l, y) => l = "reply"
  <2>1. InPlace(c, "reply", "reply")
    BY <1>1 DEF InPlace
  <2> QED
    BY <1>2, <1>4, <2>1 DEF OnePlace
<1>9. ASSUME NEW n \in Msgs, NEW l, NEW y, InPlace(n, l, y)'
      PROVE  InPlace(n, l, y) /\ n # c
  <2>1. l # "thread" \/ y # c
    BY <1>6, <1>9 DEF InPlace, Holding
  <2>2. InPlace(n, l, y)
    BY <1>1, <1>6, <1>9, <2>1 DEF InPlace, OnlyMoves
  <2>3. n # c
    BY <1>6, <1>8, <1>9, <2>2 DEF InPlace
  <2> QED
    BY <2>2, <2>3
<1>10. Goes(c, "none", "none") /\ ~InPlace(c, "none", "none")'
  BY <1>4, <1>9 DEF Goes
<1>11. OnePlace' /\ OwnerWaits'
  BY <1>2, <1>6, <1>10, MessageGoes, OwnerMoves
<1>12. StatesRight'
  <2>1. ClientState(c)'
    BY <1>1, <1>4, <1>5, <1>6 DEF ClientState, NamesApart
  <2>2. /\ lock' = lock /\ list' = list
        /\ waiter' = waiter
    BY <1>1
  <2> QED
    BY <1>2, <1>5, <1>6, <2>1, <2>2, StatesMove
<1>13. QueuesCounted' /\ ListsUnlike'
  BY <1>1, <1>2, <1>6, QueuesStay
<1>14. PoolCounted'
  BY <1>1, <1>2, <1>6, PoolStays
<1> QED
  BY <1>7, <1>11, <1>12, <1>13, <1>14 DEF MessagesInv

\* A client is let through the pool's semaphore.
LEMMA MessagePoolWaited ==
  ASSUME MessagesInv, NamesApart, NEW c \in Clients, PoolWait(c)
  PROVE  MessagesInv'
<1>1. /\ at[c] = "idle" /\ poolSem > 0 /\ poolSem' = poolSem - 1
      /\ at' = [at EXCEPT ![c] = "pool"]
      /\ UNCHANGED <<list, sem, lock, waiter, waitsem, poolFree,
                     msg, dest>>
  BY DEF PoolWait, Goto, queueVars
<1>2. MessagesType /\ OnePlace /\ OwnerWaits /\ StatesRight /\ PoolCounted /\ QueuesCounted
      /\ ListsUnlike
  BY DEF MessagesInv
<1>3. at \in [Threads -> MessagesPlaces] /\ poolSem \in Nat
  BY <1>2 DEF MessagesType
<1>4. c \in Threads
  BY DEF Threads
<1>5. ClientState(c) /\ c \notin Servers
  BY <1>4, ThreadFacts
<1>6. OnlyMoves(c) /\ at'[c] = "pool"
  BY <1>1, <1>3, <1>4 DEF OnlyMoves
<1>7. MessagesType'
  <2>1. at' \in [Threads -> MessagesPlaces]
    BY <1>1, <1>3 DEF MessagesPlaces
  <2> QED
    BY <1>1, <1>2, <1>3, <2>1 DEF MessagesType
<1>8. OnePlace' /\ OwnerWaits'
  <2>1. Goes(NoMsg, "none", "none")
    BY <1>1, <1>2, <1>6, NothingGoes DEF Holding
  <2>2. NoMsg \notin Clients /\ ~Expects(c)
    BY <1>1 DEF NamesApart, Msgs, Expects
  <2> QED
    BY <1>2, <1>6, <2>1, <2>2, MessageGoes, OwnerMoves
<1>9. StatesRight'
  <2>1. ClientState(c)'
    BY <1>1, <1>5, <1>6 DEF ClientState
  <2>2. /\ lock' = lock /\ list' = list
        /\ waiter' = waiter
    BY <1>1
  <2> QED
    BY <1>2, <1>5, <1>6, <2>1, <2>2, StatesMove
<1>10. QueuesCounted' /\ ListsUnlike'
  BY <1>1, <1>2, <1>6, QueuesStay
<1>11. PoolCounted'
  <2>1. c \notin BetweenPool /\ c \in BetweenPool'
    BY <1>1, <1>4, <1>6 DEF BetweenPool
  <2>2. /\ IsFiniteSet(BetweenPool') /\ Cardinality(BetweenPool) \in Nat
        /\ Cardinality(BetweenPool') = Cardinality(BetweenPool) + 1
    BY <1>2, <1>6, <2>1, PoolComes
  <2>3. Cardinality(poolFree) = poolSem + Cardinality(BetweenPool)
    BY <1>2 DEF PoolCounted
  <2>4. Cardinality(poolFree) = poolSem' + Cardinality(BetweenPool')
    BY <1>1, <1>3, <2>2, <2>3
  <2> QED
    BY <1>1, <1>2, <2>2, <2>4 DEF PoolCounted
<1> QED
  BY <1>7, <1>8, <1>9, <1>10, <1>11 DEF MessagesInv

\* And sends a block of it.
LEMMA MessagePoolSent ==
  ASSUME MessagesInv, NamesApart, NEW c \in Clients, PoolSend(c)
  PROVE  MessagesInv'
<1>1. PICK m \in poolFree :
      /\ at[c] = "pool" /\ poolFree' = poolFree \ {m}
      /\ at' = [at EXCEPT ![c] = "append"]
      /\ dest' = [dest EXCEPT ![c] = Server]
      /\ msg' = [msg EXCEPT ![c] = m]
      /\ waiter' = [waiter EXCEPT ![m] = "pool"]
      /\ UNCHANGED <<list, sem, lock, waitsem, poolSem>>
  BY DEF PoolSend, SendHelper, queueVars
<1>2. MessagesType /\ OnePlace /\ OwnerWaits /\ StatesRight /\ PoolCounted /\ QueuesCounted
      /\ ListsUnlike
  BY DEF MessagesInv
<1>3. /\ at \in [Threads -> MessagesPlaces]
      /\ msg \in [Threads -> Msgs \cup {NoMsg}]
      /\ dest \in [Threads -> Queues]
      /\ waiter \in [Msgs -> {"none", "simple", "queue", "pool"}]
      /\ poolFree \subseteq PoolMsgs /\ poolSem \in Nat
  BY <1>2 DEF MessagesType
<1>4. /\ c \in Threads /\ Server \in Queues
      /\ m \in PoolMsgs /\ m \in Msgs /\ m \notin Clients /\ m # c
  BY <1>1, <1>3 DEF Threads, Msgs, Queues, NamesApart
<1>5. ClientState(c) /\ c \notin Servers
  BY <1>4, ThreadFacts
<1>6. /\ OnlyMoves(c) /\ at'[c] = "append" /\ msg'[c] = m
      /\ dest'[c] = Server /\ waiter'[m] = "pool"
      /\ \A n \in Msgs \ {m} : waiter'[n] = waiter[n]
  BY <1>1, <1>3, <1>4 DEF OnlyMoves
<1>7. MessagesType'
  <2>1. at' \in [Threads -> MessagesPlaces]
    BY <1>1, <1>3 DEF MessagesPlaces
  <2>2. /\ msg' \in [Threads -> Msgs \cup {NoMsg}]
        /\ dest' \in [Threads -> Queues]
        /\ waiter' \in [Msgs -> {"none", "simple", "queue", "pool"}]
        /\ poolFree' \subseteq PoolMsgs
    BY <1>1, <1>3, <1>4
  <2> QED
    BY <1>1, <1>2, <2>1, <2>2 DEF MessagesType
<1>8. \A l, y : InPlace(m, l, y) => l = "pool"
  <2>1. InPlace(m, "pool", "pool")
    BY <1>1 DEF InPlace
  <2> QED
    BY <1>2, <1>4, <2>1 DEF OnePlace
<1>9. Goes(m, "thread", c)
  <2> SUFFICES ASSUME NEW n \in Msgs, NEW l, NEW y, InPlace(n, l, y)'
               PROVE  IF n = m THEN l = "thread" /\ y = c ELSE InPlace(n, l, y)
    BY DEF Goes
  <2>1. CASE l = "thread" /\ y = c
    BY <1>6, <2>1 DEF InPlace
  <2>2. CASE ~(l = "thread" /\ y = c)
    <3>1. InPlace(n, l, y)
      BY <1>1, <1>6, <2>2 DEF InPlace, OnlyMoves
    <3>2. n = m => l = "pool"
      BY <1>8, <3>1
    <3>3. ~(n = m /\ l = "pool")
      BY <1>1 DEF InPlace
    <3> QED
      BY <3>1, <3>2, <3>3
  <2> QED
    BY <2>1, <2>2
<1>10. OnePlace' /\ OwnerWaits'
  <2>1. ~Expects(c)
    BY <1>1 DEF Expects
  <2> QED
    BY <1>2, <1>4, <1>6, <1>9, <2>1, MessageGoes, OwnerMoves
<1>11. StatesRight'
  <2>1. waiter'[c] = waiter[c]
    BY <1>4, <1>6 DEF Msgs
  <2>2. ClientState(c)'
    BY <1>1, <1>4, <1>5, <1>6, <2>1 DEF ClientState
  <2>3. /\ \A d \in Clients \ {c} : waiter'[d] = waiter[d]
        /\ \A n \in PoolMsgs : waiter'[n] \in {waiter[n], "pool"}
    BY <1>4, <1>6 DEF Msgs
  <2>4. lock' = lock /\ list' = list
    BY <1>1
  <2> QED
    BY <1>2, <1>5, <1>6, <2>2, <2>3, <2>4, StatesMove
<1>12. QueuesCounted' /\ ListsUnlike'
  BY <1>1, <1>2, <1>6, QueuesStay
<1>13. PoolCounted'
  <2>1. c \in BetweenPool /\ c \notin BetweenPool'
    BY <1>1, <1>4, <1>6 DEF BetweenPool
  <2>2. /\ IsFiniteSet(BetweenPool') /\ Cardinality(BetweenPool) \in Nat
        /\ Cardinality(BetweenPool') + 1 = Cardinality(BetweenPool)
    BY <1>2, <1>6, <2>1, PoolLeaves
  <2>3. /\ IsFiniteSet(poolFree)
        /\ Cardinality(poolFree) = poolSem + Cardinality(BetweenPool)
    BY <1>2 DEF PoolCounted
  <2>4. /\ IsFiniteSet(poolFree') /\ Cardinality(poolFree') = Cardinality(poolFree) - 1
    BY <1>1, <2>3, FS_RemoveElement
  <2>5. PICK x \in Nat : x = Cardinality(BetweenPool')
    BY <2>2, FS_CardinalityType
  <2>6. Cardinality(poolFree') = poolSem + x
    BY <1>3, <2>2, <2>3, <2>4, <2>5
  <2> QED
    BY <1>1, <2>2, <2>4, <2>5, <2>6 DEF PoolCounted
<1> QED
  BY <1>7, <1>10, <1>11, <1>12, <1>13 DEF MessagesInv

\* A server turns to its queue.
LEMMA MessageServed ==
  ASSUME MessagesInv, NamesApart, NEW t \in Threads,
         t \in Servers, Serve(t)
  PROVE  MessagesInv'
<1>1. /\ at[t] = "idle"
      /\ at' = [at EXCEPT ![t] = "wait"]
      /\ dest' = [dest EXCEPT ![t] = Server]
      /\ UNCHANGED <<list, sem, lock, waiter, waitsem, poolFree,
                     poolSem, msg>>
  BY DEF Serve, Goto, queueVars, poolVars
<1>2. MessagesType /\ OnePlace /\ OwnerWaits /\ StatesRight /\ PoolCounted /\ QueuesCounted
      /\ ListsUnlike
  BY DEF MessagesInv
<1>3. /\ at \in [Threads -> MessagesPlaces]
      /\ dest \in [Threads -> Queues]
      /\ Server \in Queues
  BY <1>2 DEF MessagesType, Queues
<1>4. ServerState(t) /\ t \notin Clients
  BY ThreadFacts
<1>5. /\ OnlyMoves(t) /\ at'[t] = "wait" /\ msg'[t] = msg[t]
      /\ dest'[t] = Server
  BY <1>1, <1>3 DEF OnlyMoves
<1>6. MessagesType'
  <2>1. at' \in [Threads -> MessagesPlaces]
    BY <1>1, <1>3 DEF MessagesPlaces
  <2>2. dest' \in [Threads -> Queues]
    BY <1>1, <1>3
  <2> QED
    BY <1>1, <1>2, <2>1, <2>2 DEF MessagesType
<1>7. OnePlace' /\ OwnerWaits'
  <2>1. Goes(NoMsg, "none", "none")
    BY <1>1, <1>2, <1>5, NothingGoes DEF Holding
  <2>2. NoMsg \notin Clients
    BY DEF NamesApart, Msgs
  <2> QED
    BY <1>2, <1>4, <1>5, <2>1, <2>2, MessageGoes, OwnerMoves
<1>8. StatesRight'
  <2>1. ServerState(t)'
    BY <1>1, <1>4, <1>5 DEF ServerState
  <2>2. /\ lock' = lock /\ list' = list
        /\ waiter' = waiter
    BY <1>1
  <2> QED
    BY <1>2, <1>4, <1>5, <2>1, <2>2, StatesMove
<1>9. QueuesCounted' /\ ListsUnlike'
  BY <1>1, <1>2, <1>5, QueuesStay
<1>10. PoolCounted'
  BY <1>1, <1>2, <1>5, PoolStays
<1> QED
  BY <1>6, <1>7, <1>8, <1>9, <1>10 DEF MessagesInv

\* What is replied to, and how.
LEMMA ReplyFacts ==
  ASSUME MessagesInv, NamesApart, NEW t \in Threads,
         t \in Servers, at[t] = "have"
  PROVE  /\ t \notin Clients /\ ServerState(t) /\ msg[t] \in Msgs
         /\ \A l, y : InPlace(msg[t], l, y) => l = "thread" /\ y = t
         /\ waiter[msg[t]] \in {"simple", "queue"} =>
              msg[t] \in Clients /\ msg[t] # t /\ Expects(msg[t])
         /\ waiter[msg[t]] \notin {"simple", "queue"} =>
              msg[t] \in PoolMsgs /\ msg[t] \notin Clients /\ msg[t] \notin poolFree
<1>1. /\ t \notin Clients /\ ServerState(t) /\ msg[t] \in Msgs
      /\ \A l, y : InPlace(msg[t], l, y) => l = "thread" /\ y = t
      /\ msg[t] \in Clients /\ msg[t] # t => Expects(msg[t])
  BY ThreadFacts DEF Holding
<1>2. PICK m \in Msgs : m = msg[t]
  BY <1>1
<1>3. ASSUME m \in Clients PROVE Expects(m) /\ m # t /\ waiter[m] \in {"simple", "queue"}
  <2>1. Expects(m) /\ m # t
    BY <1>1, <1>2, <1>3
  <2>2. ClientState(m) /\ waiter[m] \in {"none", "simple", "queue", "pool"}
    BY <1>3 DEF MessagesInv, StatesRight, MessagesType
  <2> QED
    BY <2>1, <2>2 DEF ClientState, Expects
<1>4. ASSUME m \notin Clients
      PROVE  m \in PoolMsgs /\ waiter[m] \in {"none", "pool"} /\ m \notin poolFree
  <2>1. m \in PoolMsgs
    BY <1>4 DEF Msgs
  <2>2. waiter[m] \in {"none", "pool"}
    BY <2>1 DEF MessagesInv, StatesRight
  <2>3. ~InPlace(m, "pool", "pool")
    BY <1>1, <1>2
  <2> QED
    BY <2>1, <2>2, <2>3 DEF InPlace
<1> QED
  BY <1>1, <1>2, <1>3, <1>4

\* A reply by the semaphore of its sender,
LEMMA MessageReplySem ==
  ASSUME MessagesInv, NamesApart, NEW t \in Threads,
         t \in Servers, Reply(t), waiter[msg[t]] = "simple"
  PROVE  MessagesInv'
<1>1. PICK m :
      /\ m = msg[t] /\ at[t] = "have"
      /\ waitsem' = [waitsem EXCEPT ![m] = @ + 1]
      /\ at' = [at EXCEPT ![t] = "idle"]
      /\ msg' = [msg EXCEPT ![t] = NoMsg]
      /\ UNCHANGED <<list, sem, lock, waiter, poolFree,
                     poolSem, dest>>
  BY DEF Reply, Goto, queueVars, poolVars
<1>2. MessagesType /\ OnePlace /\ OwnerWaits /\ StatesRight /\ PoolCounted /\ QueuesCounted
      /\ ListsUnlike
  BY DEF MessagesInv
<1>3. /\ at \in [Threads -> MessagesPlaces]
      /\ msg \in [Threads -> Msgs \cup {NoMsg}]
      /\ waitsem \in [Clients -> Nat]
  BY <1>2 DEF MessagesType
<1>4. /\ t \notin Clients /\ ServerState(t) /\ m \in Msgs
      /\ \A l, y : InPlace(m, l, y) => l = "thread" /\ y = t
      /\ m \in Clients /\ m # t /\ Expects(m)
  BY <1>1, ReplyFacts
<1>5. /\ OnlyMoves(t) /\ at'[t] = "idle" /\ msg'[t] = NoMsg
      /\ waitsem'[m] \in Nat /\ \A d \in Clients \ {m} : waitsem'[d] = waitsem[d]
  BY <1>1, <1>3, <1>4 DEF OnlyMoves
<1>6. MessagesType'
  <2>1. at' \in [Threads -> MessagesPlaces]
    BY <1>1, <1>3 DEF MessagesPlaces
  <2>2. /\ msg' \in [Threads -> Msgs \cup {NoMsg}]
        /\ waitsem' \in [Clients -> Nat]
    BY <1>1, <1>3, <1>5
  <2> QED
    BY <1>1, <1>2, <2>1, <2>2 DEF MessagesType
<1>7. Goes(m, "reply", "reply")
  <2> SUFFICES ASSUME NEW n \in Msgs, NEW l, NEW y, InPlace(n, l, y)'
               PROVE  IF n = m THEN l = "reply" /\ y = "reply" ELSE InPlace(n, l, y)
    BY DEF Goes
  <2>1. ~(l = "thread" /\ y = t)
    BY <1>5 DEF InPlace, Holding
  <2>2. CASE l = "reply" /\ n = m
    BY <2>2 DEF InPlace
  <2>3. CASE ~(l = "reply" /\ n = m)
    <3>1. InPlace(n, l, y)
      BY <1>1, <1>5, <2>1, <2>3 DEF InPlace, OnlyMoves
    <3> QED
      BY <1>4, <2>1, <3>1
  <2> QED
    BY <2>2, <2>3
<1>8. OnePlace' /\ OwnerWaits'
  <2>1. Expects(m)'
    BY <1>4, <1>5 DEF Expects, OnlyMoves, Threads
  <2> QED
    BY <1>2, <1>4, <1>5, <1>7, <2>1, MessageGoes, OwnerMoves
<1>9. StatesRight'
  <2>1. ServerState(t)'
    BY <1>5 DEF ServerState
  <2>2. /\ lock' = lock /\ list' = list
        /\ waiter' = waiter
    BY <1>1
  <2> QED
    BY <1>2, <1>4, <1>5, <2>1, <2>2, StatesMove
<1>10. QueuesCounted' /\ ListsUnlike'
  BY <1>1, <1>2, <1>5, QueuesStay
<1>11. PoolCounted'
  BY <1>1, <1>2, <1>5, PoolStays
<1> QED
  BY <1>6, <1>8, <1>9, <1>10, <1>11 DEF MessagesInv

\* one by the queue of its sender,
LEMMA MessageReplyQueue ==
  ASSUME MessagesInv, NamesApart, NEW t \in Threads,
         t \in Servers, Reply(t), waiter[msg[t]] = "queue"
  PROVE  MessagesInv'
<1>1. PICK m :
      /\ m = msg[t] /\ at[t] = "have"
      /\ at' = [at EXCEPT ![t] = "append"]
      /\ dest' = [dest EXCEPT ![t] = m]
      /\ UNCHANGED <<list, sem, lock, waiter, waitsem, poolFree,
                     poolSem, msg>>
  BY DEF Reply, Goto, queueVars, poolVars
<1>2. MessagesType /\ OnePlace /\ OwnerWaits /\ StatesRight /\ PoolCounted /\ QueuesCounted
      /\ ListsUnlike
  BY DEF MessagesInv
<1>3. /\ at \in [Threads -> MessagesPlaces]
      /\ dest \in [Threads -> Queues]
  BY <1>2 DEF MessagesType
<1>4. t \notin Clients /\ ServerState(t) /\ m \in Clients
  BY <1>1, ReplyFacts
<1>5. /\ OnlyMoves(t) /\ at'[t] = "append" /\ msg'[t] = msg[t]
      /\ dest'[t] = m
  BY <1>1, <1>3 DEF OnlyMoves
<1>6. MessagesType'
  <2>1. at' \in [Threads -> MessagesPlaces]
    BY <1>1, <1>3 DEF MessagesPlaces
  <2>2. dest' \in [Threads -> Queues]
    BY <1>1, <1>3, <1>4 DEF Queues
  <2> QED
    BY <1>1, <1>2, <2>1, <2>2 DEF MessagesType
<1>7. OnePlace' /\ OwnerWaits'
  <2>1. Goes(NoMsg, "none", "none")
    BY <1>1, <1>2, <1>5, NothingGoes DEF Holding
  <2>2. NoMsg \notin Clients
    BY DEF NamesApart, Msgs
  <2> QED
    BY <1>2, <1>4, <1>5, <2>1, <2>2, MessageGoes, OwnerMoves
<1>8. StatesRight'
  <2>1. ServerState(t)'
    BY <1>1, <1>4, <1>5 DEF ServerState
  <2>2. /\ lock' = lock /\ list' = list
        /\ waiter' = waiter
    BY <1>1
  <2> QED
    BY <1>2, <1>4, <1>5, <2>1, <2>2, StatesMove
<1>9. QueuesCounted' /\ ListsUnlike'
  BY <1>1, <1>2, <1>5, QueuesStay
<1>10. PoolCounted'
  BY <1>1, <1>2, <1>5, PoolStays
<1> QED
  BY <1>6, <1>7, <1>8, <1>9, <1>10 DEF MessagesInv

\* and one that gives the block back to the pool.
LEMMA MessageReplyPool ==
  ASSUME MessagesInv, NamesApart, NEW t \in Threads,
         t \in Servers, Reply(t), waiter[msg[t]] \notin {"simple", "queue"}
  PROVE  MessagesInv'
<1>1. PICK m :
      /\ m = msg[t] /\ at[t] = "have"
      /\ poolFree' = poolFree \cup {m}
      /\ at' = [at EXCEPT ![t] = "free"]
      /\ UNCHANGED <<list, sem, lock, waiter, waitsem, poolSem,
                     msg, dest>>
  BY DEF Reply, Goto, queueVars
<1>2. MessagesType /\ OnePlace /\ OwnerWaits /\ StatesRight /\ PoolCounted /\ QueuesCounted
      /\ ListsUnlike
  BY DEF MessagesInv
<1>3. at \in [Threads -> MessagesPlaces] /\ poolFree \subseteq PoolMsgs
      /\ poolSem \in Nat
  BY <1>2 DEF MessagesType
<1>4. /\ t \notin Clients /\ ServerState(t) /\ m \in Msgs
      /\ \A l, y : InPlace(m, l, y) => l = "thread" /\ y = t
      /\ m \in PoolMsgs /\ m \notin Clients /\ m \notin poolFree
  BY <1>1, ReplyFacts
<1>5. OnlyMoves(t) /\ at'[t] = "free" /\ msg'[t] = m
  BY <1>1, <1>3 DEF OnlyMoves
<1>6. MessagesType'
  <2>1. at' \in [Threads -> MessagesPlaces]
    BY <1>1, <1>3 DEF MessagesPlaces
  <2>2. poolFree' \subseteq PoolMsgs
    BY <1>1, <1>3, <1>4
  <2> QED
    BY <1>1, <1>2, <2>1, <2>2 DEF MessagesType
<1>7. Goes(m, "pool", "pool")
  <2> SUFFICES ASSUME NEW n \in Msgs, NEW l, NEW y, InPlace(n, l, y)'
               PROVE  IF n = m THEN l = "pool" /\ y = "pool" ELSE InPlace(n, l, y)
    BY DEF Goes
  <2>1. ~(l = "thread" /\ y = t)
    BY <1>5 DEF InPlace, Holding
  <2>2. CASE l = "pool" /\ n = m
    BY <2>2 DEF InPlace
  <2>3. CASE ~(l = "pool" /\ n = m)
    <3>1. InPlace(n, l, y)
      BY <1>1, <1>5, <2>1, <2>3 DEF InPlace, OnlyMoves
    <3> QED
      BY <1>4, <2>1, <3>1
  <2> QED
    BY <2>2, <2>3
<1>8. OnePlace' /\ OwnerWaits'
  BY <1>2, <1>4, <1>5, <1>7, MessageGoes, OwnerMoves
<1>9. StatesRight'
  <2>1. ServerState(t)'
    BY <1>4, <1>5 DEF ServerState
  <2>2. /\ lock' = lock /\ list' = list
        /\ waiter' = waiter
    BY <1>1
  <2> QED
    BY <1>2, <1>4, <1>5, <2>1, <2>2, StatesMove
<1>10. QueuesCounted' /\ ListsUnlike'
  BY <1>1, <1>2, <1>5, QueuesStay
<1>11. PoolCounted'
  <2>1. t \notin BetweenPool /\ t \in BetweenPool'
    BY <1>1, <1>5 DEF BetweenPool
  <2>2. /\ IsFiniteSet(BetweenPool') /\ Cardinality(BetweenPool) \in Nat
        /\ Cardinality(BetweenPool') = Cardinality(BetweenPool) + 1
    BY <1>2, <1>5, <2>1, PoolComes
  <2>3. /\ IsFiniteSet(poolFree)
        /\ Cardinality(poolFree) = poolSem + Cardinality(BetweenPool)
    BY <1>2 DEF PoolCounted
  <2>4. /\ IsFiniteSet(poolFree') /\ Cardinality(poolFree') = Cardinality(poolFree) + 1
    BY <1>1, <1>4, <2>3, FS_AddElement
  <2>5. Cardinality(poolFree') = poolSem + Cardinality(BetweenPool')
    BY <1>3, <2>2, <2>3, <2>4
  <2> QED
    BY <1>1, <2>2, <2>4, <2>5 DEF PoolCounted
<1> QED
  BY <1>6, <1>8, <1>9, <1>10, <1>11 DEF MessagesInv

\* The pool's semaphore is posted after the block is there.
LEMMA MessagePoolFreed ==
  ASSUME MessagesInv, NamesApart, NEW t \in Threads,
         t \in Servers, PoolFree(t)
  PROVE  MessagesInv'
<1>1. /\ at[t] = "free" /\ poolSem' = poolSem + 1
      /\ at' = [at EXCEPT ![t] = "idle"]
      /\ msg' = [msg EXCEPT ![t] = NoMsg]
      /\ UNCHANGED <<list, sem, lock, waiter, waitsem, poolFree,
                     dest>>
  BY DEF PoolFree, Goto, queueVars
<1>2. MessagesType /\ OnePlace /\ OwnerWaits /\ StatesRight /\ PoolCounted /\ QueuesCounted
      /\ ListsUnlike
  BY DEF MessagesInv
<1>3. /\ at \in [Threads -> MessagesPlaces]
      /\ msg \in [Threads -> Msgs \cup {NoMsg}]
      /\ poolSem \in Nat
  BY <1>2 DEF MessagesType
<1>4. ServerState(t) /\ t \notin Clients
  BY ThreadFacts
<1>5. OnlyMoves(t) /\ at'[t] = "idle" /\ msg'[t] = NoMsg
  BY <1>1, <1>3 DEF OnlyMoves
<1>6. MessagesType'
  <2>1. at' \in [Threads -> MessagesPlaces]
    BY <1>1, <1>3 DEF MessagesPlaces
  <2>2. /\ msg' \in [Threads -> Msgs \cup {NoMsg}]
        /\ poolSem' \in Nat
    BY <1>1, <1>3
  <2> QED
    BY <1>1, <1>2, <2>1, <2>2 DEF MessagesType
<1>7. OnePlace' /\ OwnerWaits'
  <2>1. Goes(NoMsg, "none", "none")
    BY <1>1, <1>2, <1>5, NothingGoes DEF Holding
  <2>2. NoMsg \notin Clients
    BY DEF NamesApart, Msgs
  <2> QED
    BY <1>2, <1>4, <1>5, <2>1, <2>2, MessageGoes, OwnerMoves
<1>8. StatesRight'
  <2>1. ServerState(t)'
    BY <1>5 DEF ServerState
  <2>2. /\ lock' = lock /\ list' = list
        /\ waiter' = waiter
    BY <1>1
  <2> QED
    BY <1>2, <1>4, <1>5, <2>1, <2>2, StatesMove
<1>9. QueuesCounted' /\ ListsUnlike'
  BY <1>1, <1>2, <1>5, QueuesStay
<1>10. PoolCounted'
  <2>1. t \in BetweenPool /\ t \notin BetweenPool'
    BY <1>1, <1>5 DEF BetweenPool
  <2>2. /\ IsFiniteSet(BetweenPool') /\ Cardinality(BetweenPool) \in Nat
        /\ Cardinality(BetweenPool') + 1 = Cardinality(BetweenPool)
    BY <1>2, <1>5, <2>1, PoolLeaves
  <2>3. Cardinality(poolFree) = poolSem + Cardinality(BetweenPool)
    BY <1>2 DEF PoolCounted
  <2>4. PICK x \in Nat : x = Cardinality(BetweenPool')
    BY <2>2, FS_CardinalityType
  <2>5. Cardinality(poolFree) = (poolSem + 1) + x
    BY <1>3, <2>2, <2>3, <2>4
  <2> QED
    BY <1>1, <1>2, <2>2, <2>4, <2>5 DEF PoolCounted
<1> QED
  BY <1>6, <1>7, <1>8, <1>9, <1>10 DEF MessagesInv

LEMMA MessagesStutter ==
  ASSUME MessagesInv, UNCHANGED qvars
  PROVE  MessagesInv'
<1>1. UNCHANGED <<list, sem, lock, waiter, waitsem, poolFree,
                  poolSem, at, msg, dest>>
  BY DEF qvars, queueVars, poolVars
<1>2. MessagesType' /\ ListsUnlike' /\ OnePlace' /\ OwnerWaits' /\ StatesRight'
  BY <1>1 DEF MessagesInv, MessagesType, ListsUnlike, OnePlace, OwnerWaits, InPlace, Expects,
    StatesRight, ClientState, ServerState
<1>3. QueuesCounted' /\ PoolCounted'
  BY <1>1 DEF MessagesInv, QueuesCounted, CountedAt, Between, LockHeld, PoolCounted, BetweenPool
<1> QED
  BY <1>2, <1>3 DEF MessagesInv

LEMMA MessagesMove ==
  ASSUME MessagesInv, NamesApart, [MNext]_qvars
  PROVE  MessagesInv'
<1>1. CASE UNCHANGED qvars
  BY <1>1, MessagesStutter
<1>2. ASSUME NEW t \in Threads, Runs(t)
      PROVE  MessagesInv'
  <2>1. CASE MsgqAppend(t)
    BY <2>1, MessageAppended
  <2>2. CASE Post(t)
    BY <2>2, MessagePosted
  <2>3. CASE SemWait(t)
    BY <2>3, MessageAwaited
  <2>4. CASE TakeMsg(t)
    BY <2>4, MessageTaken
  <2>5. CASE t \in Clients /\ Replied(t)
    BY <2>5, MessageReplied
  <2>6. CASE t \in Clients /\ PoolSend(t)
    BY <2>6, MessagePoolSent
  <2>7. CASE t \in Servers /\ Serve(t)
    BY <2>7, MessageServed
  <2>8. CASE t \in Servers /\ Peek(t)
    BY <2>8, MessagePeeked
  <2>9. CASE t \in Servers /\ PeekSemWait(t)
    BY <2>9, MessagePeekedAt
  <2>10. CASE t \in Servers /\ Reply(t)
    BY <2>10, MessageReplySem, MessageReplyQueue, MessageReplyPool
  <2>11. CASE t \in Servers /\ PoolFree(t)
    BY <2>11, MessagePoolFreed
  <2> QED
    BY <1>2, <2>1, <2>2, <2>3, <2>4, <2>5, <2>6, <2>7, <2>8, <2>9, <2>10, <2>11
      DEF Runs
<1>3. ASSUME NEW c \in Clients,
             PoolWait(c) \/ \E w \in {"simple", "queue"} : Send(c, w)
      PROVE  MessagesInv'
  BY <1>3, MessagePoolWaited, MessageSent
<1> QED
  BY <1>1, <1>2, <1>3 DEF MNext

\* The counts and the places together say what the module promises.
LEMMA MessagesRight ==
  ASSUME MessagesInv, NamesApart
  PROVE  SomethingThere /\ SenderWaits
<1>1. ASSUME NEW q \in Queues, lock[q] = Free
      PROVE  Len(list[q]) >= sem[q]
               + Cardinality({t \in Threads : at[t] = "take" /\ dest[t] = q})
  <2> DEFINE T == {t \in Threads : at[t] = "take" /\ dest[t] = q}
  <2>1. /\ IsFiniteSet(Between(q))
        /\ Len(list[q]) + LockHeld(q) = sem[q] + Cardinality(Between(q))
    BY DEF MessagesInv, QueuesCounted, CountedAt
  <2>2. T \subseteq Between(q)
    BY DEF Between
  <2>3. IsFiniteSet(T) /\ Cardinality(T) <= Cardinality(Between(q))
    BY <2>1, <2>2, FS_Subset
  <2>4. LockHeld(q) = 0 /\ sem[q] \in Nat /\ Len(list[q]) \in Nat
    BY <1>1 DEF LockHeld, MessagesInv, MessagesType
  <2>5. Cardinality(T) \in Nat /\ Cardinality(Between(q)) \in Nat
    BY <2>1, <2>3, FS_CardinalityType
  <2> HIDE DEF T
  <2>6. Len(list[q]) >= sem[q] + Cardinality(T)
    BY ONLY <2>1, <2>3, <2>4, <2>5
  <2> QED
    BY <2>6 DEF T
<1>2. Cardinality(poolFree) >= poolSem + Cardinality({c \in Clients : at[c] = "pool"})
  <2> DEFINE T == {c \in Clients : at[c] = "pool"}
  <2>1. /\ IsFiniteSet(BetweenPool) /\ poolSem \in Nat
        /\ Cardinality(poolFree) = poolSem + Cardinality(BetweenPool)
    BY DEF MessagesInv, PoolCounted, MessagesType
  <2>2. T \subseteq BetweenPool
    BY DEF BetweenPool, Threads
  <2>3. IsFiniteSet(T) /\ Cardinality(T) <= Cardinality(BetweenPool)
    BY <2>1, <2>2, FS_Subset
  <2>4. Cardinality(T) \in Nat /\ Cardinality(BetweenPool) \in Nat
    BY <2>1, <2>3, FS_CardinalityType
  <2> HIDE DEF T
  <2>5. Cardinality(poolFree) >= poolSem + Cardinality(T)
    BY ONLY <2>1, <2>3, <2>4
  <2> QED
    BY <2>5 DEF T
<1>3. SomethingThere
  BY <1>1, <1>2, Zenon DEF SomethingThere
<1>4. SenderWaits
  <2> SUFFICES ASSUME NEW m \in Clients,
                      \/ \E t \in Servers : msg[t] = m /\ at[t] # "post"
                      \/ \E q \in Queues : \E i \in DOMAIN list[q] :
                           list[q][i] = m
               PROVE  Expects(m)
    BY DEF SenderWaits, Expects
  <2>1. ASSUME NEW t \in Servers, msg[t] = m, at[t] # "post"
        PROVE  Expects(m)
    <3>1. ServerState(t) /\ m # NoMsg /\ m \notin PoolMsgs /\ m # t
      BY DEF MessagesInv, StatesRight, NamesApart, Msgs
    <3>2. at[t] \in Holding
      BY <2>1, <3>1 DEF ServerState, Holding
    <3>3. InPlace(m, "thread", t)
      BY <2>1, <3>2 DEF InPlace, Threads
    <3> QED
      BY <3>1, <3>3 DEF MessagesInv, OwnerWaits
  <2>2. ASSUME NEW q \in Queues, NEW i \in DOMAIN list[q],
               list[q][i] = m
        PROVE  Expects(m)
    <3>1. list[q] \in Seq(Msgs)
      BY DEF MessagesInv, MessagesType
    <3>2. i \in 1 .. Len(list[q])
      BY <3>1
    <3>3. InPlace(m, "queue", q)
      BY <2>2, <3>2 DEF InPlace, InList
    <3> QED
      BY <3>3 DEF MessagesInv, OwnerWaits
  <2> QED
    BY <2>1, <2>2
<1> QED
  BY <1>3, <1>4

\* Who a semaphore lets through finds a message or a block there, and a reply
\* finds its sender waiting, for any clients, servers and messages of the pool.
THEOREM MessagesTheorem ==
  ASSUME IsFiniteSet(PoolMsgs), NamesApart
  PROVE  MSpec => [](SomethingThere /\ SenderWaits)
<1>1. MInit => MessagesInv
  BY MessagesStart
<1>2. MessagesInv /\ [MNext]_qvars => MessagesInv'
  BY MessagesMove
<1>3. MessagesInv => SomethingThere /\ SenderWaits
  BY MessagesRight
<1> QED
  BY <1>1, <1>2, <1>3, PTL DEF MSpec

=============================================================================
