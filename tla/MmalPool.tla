------------------------------ MODULE MmalPool ------------------------------
(***************************************************************************)
(* A pool of MMAL buffer headers (mmal_pool.c) and the reference counts of *)
(* its headers (mmal_buffer.c).  Headers are the slots of the pool's       *)
(* array; the client's own references are counted in refs, which no code   *)
(* keeps.  Calls come from one thread at a time: the counts are plain      *)
(* integers in the code and need it.                                       *)
(***************************************************************************)
EXTENDS Naturals, FiniteSets, Sequences, SequencesExt, FiniteSetsExt

CONSTANTS
  MaxHeaders,      \* bound: headers in the array
  NoHeader,        \* the NULL header
  MaxRefs,         \* bound: references the client takes on a header
  AllocFails,      \* may the allocation of a payload fail?
  ResizeInUse      \* may the pool be resized while the client has headers?

VARIABLES
  pool,        \* the MMAL_POOL_PRIVATE_T
  refcount, reference, payload,  \* of each header's private part
  queue,       \* pool->queue
  delayed,     \* headers whose pre-release callback delayed the release
  rel,         \* stack of mmal_buffer_header_release_continue calls
  refs,        \* history: the client's references to each header
  misplaced,   \* history: a loop walked headers at the wrong address
  short        \* history: a resize could not allocate every payload

pvars == <<pool, refcount, reference, payload, queue, delayed, rel, refs,
           misplaced, short>>

H == 1 .. MaxHeaders

\* num: headers_num, alloc: headers_alloc_num, sized: payload_size > 0,
\* base: the number of headers the array was laid out for, cb and pre: the
\* callbacks of mmal_pool_callback_set and ..._pre_release_callback_set.
NoPool == [live |-> FALSE, num |-> 0, alloc |-> 0, sized |-> FALSE,
           base |-> 0, cb |-> FALSE, pre |-> FALSE]

Blank == /\ refcount' = [h \in H |-> 0]
         /\ reference' = [h \in H |-> NoHeader]
         /\ queue' = <<>> /\ refs' = [h \in H |-> 0]
         /\ delayed' = {}

PInit ==
  /\ pool = NoPool
  /\ refcount = [h \in H |-> 0]
  /\ reference = [h \in H |-> NoHeader]
  /\ payload = [h \in H |-> 0]
  /\ queue = <<>> /\ delayed = {} /\ rel = <<>>
  /\ refs = [h \in H |-> 0]
  /\ misplaced = FALSE /\ short = FALSE

Idle == rel = <<>>

\* mmal_pool_initialise_buffer_headers with reinitialise, and the loop that
\* queues the headers: k of them, if the payload of the next could not be
\* allocated.
Initialise(k) ==
  /\ refcount' = [h \in H |-> IF h <= k THEN 1 ELSE 0]
  /\ reference' = [h \in H |-> NoHeader]
  /\ refs' = [h \in H |-> 0]
  /\ delayed' = {}
  /\ queue' = [i \in 1 .. k |-> i]

Allocated(n, sized) == IF sized /\ AllocFails THEN 0 .. n ELSE {n}

\* mmal_pool_create(n, payload_size); with a payload missing the pool is
\* destroyed again.
Create(n, sized) ==
  /\ ~pool.live /\ Idle
  /\ \E k \in Allocated(n, sized) :
       IF k < n THEN UNCHANGED <<pool, refcount, reference, payload, queue,
                                 delayed, refs>>
       ELSE /\ pool' = [NoPool EXCEPT !.live = TRUE, !.num = n, !.alloc = n,
                                      !.sized = sized, !.base = n]
            /\ Initialise(n)
            /\ payload' = [h \in H |-> IF sized /\ h <= n THEN 1 ELSE 0]
  /\ UNCHANGED <<rel, misplaced, short>>

\* Mutant: only the payloads of the headers in the queue are freed.
DestroyQueued ==
  /\ pool.live /\ Idle
  /\ \A h \in H : refs[h] = 0 /\ h \notin delayed
  /\ pool' = NoPool
  /\ payload' = [h \in H |-> IF h \in ToSet(queue) /\ h # 1 THEN 0
                             ELSE payload[h]]
  /\ Blank /\ UNCHANGED <<rel, misplaced, short>>

\* mmal_pool_destroy walks pool->header; the client is done with its headers.
Destroy ==
  /\ pool.live /\ Idle
  /\ \A h \in H : refs[h] = 0 /\ h \notin delayed
  /\ pool' = NoPool
  /\ payload' = [h \in H |-> IF h <= pool.num THEN 0 ELSE payload[h]]
  /\ Blank /\ UNCHANGED <<rel, misplaced, short>>

\* Mutant: the layout is computed from the headers allocated.
ResizeByAlloc(n, sized) ==
  /\ pool.live /\ Idle
  /\ n # pool.num \/ sized # pool.sized
  /\ \A h \in H : refs[h] = 0 /\ h \notin delayed
  /\ misplaced' = (misplaced \/ (pool.num > 0 /\ pool.base # pool.alloc))
  /\ pool' = [pool EXCEPT !.num = n, !.base = n, !.sized = sized,
                          !.alloc = IF n > @ THEN n ELSE @]
  /\ Initialise(n)
  /\ payload' = [h \in H |-> IF sized /\ h <= n THEN 1 ELSE 0]
  /\ UNCHANGED <<rel, short>>

\* mmal_pool_resize: unless nothing changes the queue is emptied, the
\* payloads are freed (the loop looks for the headers where an array of
\* headers_num of them would have them), and the pool is laid out anew.  The
\* result of the second initialisation is not looked at.
Resize(n, sized) ==
  /\ pool.live /\ Idle
  /\ n # pool.num \/ sized # pool.sized
  /\ ResizeInUse \/ \A h \in H : refs[h] = 0 /\ h \notin delayed
  /\ misplaced' = (misplaced \/ (pool.num > 0 /\ pool.base # pool.num))
  /\ \E k \in Allocated(n, sized) :
       /\ pool' = [pool EXCEPT !.num = k, !.base = n, !.sized = sized,
                               !.alloc = IF n > @ THEN n ELSE @,
                               !.pre = FALSE]
       /\ Initialise(k)
       /\ payload' = [h \in H |-> IF sized /\ h <= k THEN 1 ELSE 0]
       /\ short' = (short \/ k < n)
  /\ UNCHANGED rel

\* mmal_pool_callback_set, mmal_pool_pre_release_callback_set: the latter
\* walks the array as the resizing loop does.
SetCallbacks(cb, pre) ==
  /\ pool.live /\ Idle /\ (cb # pool.cb \/ pre # pool.pre)
  /\ misplaced' = (misplaced \/ (pre # pool.pre /\ pool.num > 0
                                   /\ pool.base # pool.num))
  /\ pool' = [pool EXCEPT !.cb = cb, !.pre = pre]
  /\ UNCHANGED <<refcount, reference, payload, queue, delayed, rel, refs, short>>

\* mmal_queue_get on the pool's queue: the client has the one reference.
Get ==
  /\ pool.live /\ Idle /\ queue # <<>>
  /\ queue' = Tail(queue)
  /\ refs' = [refs EXCEPT ![Head(queue)] = 1]
  /\ UNCHANGED <<pool, refcount, reference, payload, delayed, rel, misplaced, short>>

\* mmal_buffer_header_acquire.
Acquire(h) ==
  /\ Idle /\ refs[h] \in 1 .. MaxRefs - 1
  /\ refcount' = [refcount EXCEPT ![h] = @ + 1]
  /\ refs' = [refs EXCEPT ![h] = @ + 1]
  /\ UNCHANGED <<pool, reference, payload, queue, delayed, rel, misplaced, short>>

\* Mutant: no reference is taken on the source.
ReplicateWeak(dest, src) ==
  /\ Idle /\ dest # src /\ refs[dest] > 0 /\ refs[src] > 0
  /\ reference[dest] = NoHeader
  /\ reference' = [reference EXCEPT ![dest] = src]
  /\ UNCHANGED <<pool, refcount, payload, queue, delayed, rel, refs,
                 misplaced, short>>

\* mmal_buffer_header_replicate: dest shares the data of src until it is
\* released; refused if dest has a reference already.
Replicate(dest, src) ==
  /\ Idle /\ dest # src /\ refs[dest] > 0 /\ refs[src] > 0
  /\ reference[dest] = NoHeader
  /\ refcount' = [refcount EXCEPT ![src] = @ + 1]
  /\ reference' = [reference EXCEPT ![dest] = src]
  /\ UNCHANGED <<pool, payload, queue, delayed, rel, refs, misplaced, short>>

\* The body of mmal_buffer_header_release(h), with stack the calls that are
\* under way: the last reference starts release_continue, unless the
\* pre-release callback delays it.
Drop(h, stack) ==
  /\ refcount' = [refcount EXCEPT ![h] = @ - 1]
  /\ IF refcount[h] # 1 THEN rel' = stack /\ UNCHANGED delayed
     ELSE \/ rel' = Append(stack, h) /\ UNCHANGED delayed
          \/ /\ pool.pre
             /\ delayed' = delayed \cup {h} /\ rel' = stack

Release(h) ==
  /\ Idle /\ refs[h] > 0
  /\ refs' = [refs EXCEPT ![h] = @ - 1]
  /\ Drop(h, rel)
  /\ UNCHANGED <<pool, reference, payload, queue, misplaced, short>>

\* The client, done with a delayed header, calls
\* mmal_buffer_header_release_continue.
ReleaseContinue(h) ==
  /\ Idle /\ h \in delayed
  /\ delayed' = delayed \ {h} /\ rel' = <<h>>
  /\ UNCHANGED <<pool, refcount, reference, payload, queue, refs, misplaced, short>>

\* release_continue first releases the header whose data this one shares,
ReleaseReference ==
  /\ rel # <<>> /\ reference[Last(rel)] # NoHeader
  /\ Drop(reference[Last(rel)], rel)
  /\ reference' = [reference EXCEPT ![Last(rel)] = NoHeader]
  /\ UNCHANGED <<pool, payload, queue, refs, misplaced, short>>

\* Mutant: the count is left at zero.
RecycleUncounted ==
  LET h == Last(rel) IN
  /\ rel # <<>> /\ reference[h] = NoHeader
  /\ rel' = Front(rel)
  /\ queue' = Append(queue, h)
  /\ UNCHANGED <<pool, refcount, reference, payload, delayed, refs, misplaced, short>>

\* then mmal_pool_buffer_header_release puts it in the queue, unless the
\* client's callback keeps it.
Recycle ==
  LET h == Last(rel) IN
  /\ rel # <<>> /\ reference[h] = NoHeader
  /\ rel' = Front(rel)
  /\ refcount' = [refcount EXCEPT ![h] = 1]
  /\ \/ queue' = Append(queue, h) /\ UNCHANGED refs
     \/ pool.cb /\ refs' = [refs EXCEPT ![h] = 1] /\ UNCHANGED queue
  /\ UNCHANGED <<pool, reference, payload, delayed, misplaced, short>>

PNext ==
  \/ \E n \in H, sized \in BOOLEAN : Create(n, sized) \/ Resize(n, sized)
  \/ \E cb, pre \in BOOLEAN : SetCallbacks(cb, pre)
  \/ \E h \in H : Acquire(h) \/ Release(h) \/ ReleaseContinue(h)
  \/ \E dest, src \in H : Replicate(dest, src)
  \/ Destroy \/ Get \/ ReleaseReference \/ Recycle

PSpec == PInit /\ [][PNext]_pvars

-----------------------------------------------------------------------------
(* Properties                                                              *)

Sharers(h) == {d \in H : reference[d] = h}

\* Between calls a header's count is the client's references plus the
\* headers that share its data, a header in the queue counts 1 and is shared
\* by nobody: data is never recycled under a replica, through any chain of
\* replicas, delayed releases and callbacks that keep a header.
CountsAreRight ==
  Idle /\ pool.live /\ ~misplaced =>
    /\ IsInjective(queue)
    /\ \A h \in H :
      /\ h \in ToSet(queue) => /\ refcount[h] = 1 /\ Sharers(h) = {}
                               /\ reference[h] = NoHeader /\ refs[h] = 0
      /\ (h \notin ToSet(queue) /\ h <= pool.num) =>
            refcount[h] = refs[h] + Cardinality(Sharers(h))

\* The payloads allocated are those of the pool's headers: none is leaked or
\* freed twice by resizing, failed creation or destruction.
PayloadsBalanced ==
  misplaced \/ {h \in H : payload[h] = 1} =
    (IF pool.live /\ pool.sized THEN 1 .. pool.num ELSE {})

\* The loops that compute a header's address from headers_num find it where
\* the array was laid out, unless an earlier resize was short of payloads.
WalksTheArray == misplaced => short

=============================================================================
