----------------------------- MODULE JpegDecode -----------------------------
(***************************************************************************)
(* The decoder of brcmjpeg (client/brcmjpeg/brcmjpeg.c), shared by all     *)
(* threads of the process: they create, share and release one context and  *)
(* decode one after the other.  The decoder and MMAL's thread, which runs  *)
(* the wrapper's callbacks, are external.                                  *)
(***************************************************************************)
EXTENDS Naturals, Sequences, SequencesExt

CONSTANTS
  Threads,
  Ins, Outs,      \* headers of the ports: 3 and 3 in the code
  Chunks, Slices, \* of a picture: what goes in, what comes out
  FailAt,         \* where brcmjpeg_init_decoder may fail: "create", "late"
  ReleaseAlone,   \* no thread looks the context up while the last one leaves
  MaxContexts, MaxRequests, MaxErrors \* bounds

VARIABLES
  pc, has,          \* of each thread: where it is, the context it holds
  comp,             \* brcmjpeg_decoder: a context, or None
  contexts, alive,  \* how many there were; those not freed
  refs, inited, wrappers, \* of each context: ref_count, init, wrappers not destroyed
  place,            \* where brcmjpeg_decode is
  request, result,  \* its number, and what the last one returned
  room,             \* the caller's buffer is large enough
  chunk, copied,    \* next to send; slices copied, by request and number
  inPool, outOn,    \* input headers in the pool; the output port is set up
  outQueue, sema,   \* of the wrapper
  status,           \* wrapper.status: an error event has come
  inDec, outDec,    \* headers the decoder has
  eaten, announced, made, \* of the picture: chunks, its format, slices
  inCb, outCb,      \* a callback has put a header and not signalled yet
  errors

None == 0
NoThread == "none"

contextVars == <<has, comp, contexts, alive, refs, inited, wrappers>>
requestVars == <<request, result, room, chunk, copied>>
decoderVars == <<inDec, outDec, eaten, announced, made>>
decodeVars == <<place, requestVars, inPool, outOn, outQueue, sema, status, decoderVars, inCb,
                outCb, errors>>
jdvars == <<pc, contextVars, decodeVars>>

Contexts == 1 .. MaxContexts

JDInit ==
  /\ pc = [t \in Threads |-> "out"] /\ has = [t \in Threads |-> None]
  /\ comp = None /\ contexts = 0 /\ alive = {}
  /\ refs = [c \in Contexts |-> 0] /\ inited = [c \in Contexts |-> FALSE]
  /\ wrappers = [c \in Contexts |-> 0]
  /\ place = "idle" /\ request = 0 /\ result = "none" /\ room = TRUE
  /\ chunk = 1 /\ copied = <<>>
  /\ inPool = Ins /\ outOn = FALSE /\ outQueue = <<>> /\ sema = 0 /\ status = FALSE
  /\ inDec = 0 /\ outDec = 0 /\ eaten = 0 /\ announced = FALSE /\ made = 0
  /\ inCb = FALSE /\ outCb = FALSE /\ errors = 0

-----------------------------------------------------------------------------
(* brcmjpeg_create, brcmjpeg_acquire and brcmjpeg_release                  *)

Move(t, to) == pc' = [pc EXCEPT ![t] = to]

\* The lock of a context is held between two steps only while it is unlinked.
CompLocked(c) == \E u \in Threads : pc[u] = "unlink" /\ has[u] = c

\* With brcmjpeg_lock: the context is found or made, and counted.
Lookup(t) ==
  /\ pc[t] = "out" /\ (comp = None => contexts < MaxContexts)
  /\ ReleaseAlone => \A u \in Threads : pc[u] # "unlink"
  /\ LET c == IF comp = None THEN contexts + 1 ELSE comp IN
     /\ comp' = c /\ has' = [has EXCEPT ![t] = c]
     /\ refs' = [refs EXCEPT ![c] = @ + 1]
     /\ IF comp = None THEN contexts' = c /\ alive' = alive \cup {c}
                       ELSE UNCHANGED <<contexts, alive>>
  /\ Move(t, "init")
  /\ UNCHANGED <<inited, wrappers, decodeVars>>

\* mmal_wrapper_create and mmal_wrapper_destroy: the component, its pools and
\* queues, all or nothing.
CreateWrapper(c) == wrappers' = [wrappers EXCEPT ![c] = @ + 1]
DestroyWrapper(c) == wrappers' = [wrappers EXCEPT ![c] = IF @ > 0 THEN @ - 1 ELSE 0]

\* With the lock of the context: brcmjpeg_init_decoder, unless it was done.
Init(t) ==
  /\ pc[t] = "init" /\ ~CompLocked(has[t])
  /\ inited' = [inited EXCEPT ![has[t]] = TRUE]
  /\ IF inited[has[t]]
     THEN UNCHANGED <<wrappers, decodeVars>>
     ELSE /\ CreateWrapper(has[t])
          /\ inPool' = Ins /\ outOn' = FALSE /\ outQueue' = <<>> /\ sema' = 0
          /\ status' = FALSE /\ inDec' = 0 /\ outDec' = 0 /\ result' = "none"
          /\ UNCHANGED <<place, request, room, chunk, copied, eaten, announced, made, inCb, outCb, errors>>
  /\ Move(t, "ready")
  /\ UNCHANGED <<has, comp, contexts, alive, refs>>

InitFails(t) ==
  /\ pc[t] = "init" /\ ~CompLocked(has[t]) /\ ~inited[has[t]] /\ errors < MaxErrors
  /\ errors' = errors + 1
  /\ \/ "create" \in FailAt /\ UNCHANGED wrappers
     \/ "late" \in FailAt /\ CreateWrapper(has[t])
  /\ Move(t, "release")
  /\ UNCHANGED <<has, comp, contexts, alive, refs, inited, place, requestVars, inPool, outOn,
                 outQueue, sema, status, decoderVars, inCb, outCb>>

\* brcmjpeg_acquire, for another thread that is handed the context.
Acquire(t, u) ==
  /\ pc[t] = "ready" /\ pc[u] = "out" /\ ~CompLocked(has[t])
  /\ refs' = [refs EXCEPT ![has[t]] = @ + 1]
  /\ has' = [has EXCEPT ![u] = has[t]] /\ Move(u, "ready")
  /\ UNCHANGED <<comp, contexts, alive, inited, wrappers, decodeVars>>

\* The last one to leave keeps the lock of the context ...
Release(t) ==
  /\ pc[t] \in {"ready", "release"} /\ ~CompLocked(has[t])
  /\ refs' = [refs EXCEPT ![has[t]] = @ - 1]
  /\ Move(t, IF refs[has[t]] = 1 THEN "unlink" ELSE "out")
  /\ UNCHANGED <<has, comp, contexts, alive, inited, wrappers, decodeVars>>

\* Mutant: the context stays where the next thread finds it.
UnlinkNot(t) ==
  /\ pc[t] = "unlink" /\ Move(t, "destroy")
  /\ UNCHANGED <<contextVars, decodeVars>>

\* ... until no thread can find it any more ...
Unlink(t) ==
  /\ pc[t] = "unlink" /\ comp' = None /\ Move(t, "destroy")
  /\ UNCHANGED <<has, contexts, alive, refs, inited, wrappers, decodeVars>>

\* ... and destroys it.
Destroy(t) ==
  /\ pc[t] = "destroy" /\ alive' = alive \ {has[t]}
  /\ DestroyWrapper(has[t])
  /\ Move(t, "out")
  /\ UNCHANGED <<has, comp, contexts, refs, inited, decodeVars>>

-----------------------------------------------------------------------------
(* brcmjpeg_decode, with process_lock                                      *)

Signal == IF sema < 2 THEN sema + 1 ELSE sema

Configured(t) ==
  /\ pc[t] = "ready" /\ (\A u \in Threads : pc[u] # "decode") /\ request < MaxRequests
  /\ Move(t, "decode") /\ request' = request + 1 /\ room' \in BOOLEAN
  /\ chunk' = 1 /\ copied' = <<>> /\ result' = "none" /\ status' = FALSE /\ place' = "send"
  /\ ~outCb
  /\ UNCHANGED <<contextVars, inPool, sema, inDec, inCb, outCb, errors>>

\* Mutant: an output port that is enabled is left as it is.
ConfigureKeeps(t) ==
  /\ Configured(t)
  /\ UNCHANGED <<outOn, outQueue, outDec, eaten, announced, made>>

\* brcmjpeg_configure_decoder: the output port is disabled, with what is in its
\* queue, and enabled with a format yet to be detected.
Configure(t) ==
  /\ Configured(t)
  /\ outOn' = FALSE /\ outQueue' = <<>> /\ outDec' = 0
  /\ eaten' = 0 /\ announced' = FALSE /\ made' = 0

SendChunk ==
  /\ place = "send" /\ chunk <= Chunks /\ inPool > 0 /\ ~status
  /\ chunk' = chunk + 1 /\ inPool' = inPool - 1 /\ inDec' = inDec + 1
  /\ UNCHANGED <<pc, contextVars, place, request, result, room, copied, outOn, outQueue, sema,
                 status, outDec, eaten, announced, made, inCb, outCb, errors>>

\* All is sent, or no header is left for now.  An error is seen only by who
\* looks for a header.
Sent ==
  /\ place = "send" /\ (chunk > Chunks \/ inPool = 0 \/ status)
  /\ place' = IF chunk <= Chunks /\ status THEN "error" ELSE "get"
  /\ UNCHANGED <<pc, contextVars, requestVars, inPool, outOn, outQueue, sema, status, decoderVars,
                 inCb, outCb, errors>>

GetNothing ==
  /\ place = "get" /\ (status \/ outQueue = <<>>)
  /\ place' = IF status THEN "error" ELSE "wait"
  /\ UNCHANGED <<pc, contextVars, requestVars, inPool, outOn, outQueue, sema, status, decoderVars,
                 inCb, outCb, errors>>

Wait ==
  /\ place = "wait" /\ sema > 0 /\ sema' = sema - 1 /\ place' = "send"
  /\ UNCHANGED <<pc, contextVars, requestVars, inPool, outOn, outQueue, status, decoderVars, inCb,
                 outCb, errors>>

Got == place = "get" /\ ~status /\ outQueue # <<>>

\* mmal_wrapper_port_enable of the output, whose headers are then all sent.
EnableOutput == outOn' = TRUE /\ outDec' = Outs

\* The format was detected: the output port is set up for it, and the decoder
\* is given all its headers.
GetFormat ==
  /\ Got /\ Head(outQueue).slice = 0 /\ ~outCb
  /\ outQueue' = <<>>
  /\ \/ EnableOutput /\ place' = "send" /\ UNCHANGED errors
     \/ /\ errors < MaxErrors /\ errors' = errors + 1 /\ place' = "error" \* could not be set up
        /\ outOn' = FALSE /\ outDec' = 0
  /\ UNCHANGED <<pc, contextVars, requestVars, inPool, sema, status, inDec, eaten, announced, made,
                 inCb, outCb>>

\* A slice is copied where it belongs; its header goes back to the decoder
\* unless it was the last.
GetSlice ==
  /\ Got /\ Head(outQueue).slice > 0
  /\ outQueue' = Tail(outQueue)
  /\ copied' = IF room THEN Append(copied, Head(outQueue)) ELSE copied
  /\ outDec' = IF Head(outQueue).slice = Slices THEN outDec ELSE outDec + 1
  /\ sema' = IF Head(outQueue).slice = Slices THEN Signal ELSE sema
  /\ place' = IF ~room THEN "error" ELSE IF Head(outQueue).slice = Slices THEN "success" ELSE "send"
  /\ UNCHANGED <<pc, contextVars, request, result, room, chunk, inPool, outOn, status, inDec, eaten,
                 announced, made, inCb, outCb, errors>>

Returns(t) ==
  /\ pc[t] = "decode" /\ place \in {"success", "error"}
  /\ Move(t, "ready") /\ place' = "idle" /\ result' = place
  /\ UNCHANGED <<contextVars, request, room, chunk, copied, outOn, outQueue, status, outDec, eaten,
                 announced, made, inCb, outCb, errors>>

\* Mutant: what was sent stays with the decoder.
FinishNoFlush(t) == Returns(t) /\ UNCHANGED <<inPool, inDec, sema>>

\* The input port is flushed, whatever the outcome.
Finish(t) ==
  /\ Returns(t) /\ ~inCb
  /\ inPool' = Ins /\ inDec' = 0 /\ sema' = Signal

-----------------------------------------------------------------------------
(* The decoder and the callbacks of the wrapper                            *)

Decoding == inited # [c \in Contexts |-> FALSE] /\ comp # None /\ inited[comp]

\* mmal_wrapper_bh_in_cb
Eat ==
  /\ Decoding /\ inDec > 0 /\ ~inCb
  /\ inDec' = inDec - 1 /\ eaten' = eaten + 1 /\ inPool' = inPool + 1 /\ inCb' = TRUE
  /\ UNCHANGED <<pc, contextVars, place, requestVars, outOn, outQueue, sema, status, outDec, announced,
                 made, outCb, errors>>

\* mmal_wrapper_bh_out_cb, with the event or with a slice.
Announce ==
  /\ Decoding /\ eaten > 0 /\ ~announced /\ ~outCb
  /\ announced' = TRUE /\ outCb' = TRUE
  /\ outQueue' = Append(outQueue, [request |-> request, slice |-> 0])
  /\ UNCHANGED <<pc, contextVars, place, requestVars, inPool, outOn, sema, status, inDec, outDec,
                 eaten, made, inCb, errors>>

MakeSlice ==
  /\ Decoding /\ announced /\ outOn /\ outDec > 0 /\ made < Slices /\ ~outCb
  /\ made + 1 = Slices => eaten = Chunks
  /\ made' = made + 1 /\ outDec' = outDec - 1 /\ outCb' = TRUE
  /\ outQueue' = Append(outQueue, [request |-> request, slice |-> made'])
  /\ UNCHANGED <<pc, contextVars, place, requestVars, inPool, outOn, sema, status, inDec, eaten,
                 announced, inCb, errors>>

InSignal ==
  /\ inCb /\ inCb' = FALSE /\ sema' = Signal
  /\ UNCHANGED <<pc, contextVars, place, requestVars, inPool, outOn, outQueue, status, decoderVars,
                 outCb, errors>>

OutSignal ==
  /\ outCb /\ outCb' = FALSE /\ sema' = Signal
  /\ UNCHANGED <<pc, contextVars, place, requestVars, inPool, outOn, outQueue, status, decoderVars,
                 inCb, errors>>

\* mmal_wrapper_control_cb
ErrorEvent ==
  /\ place \in {"send", "get", "wait"} /\ errors < MaxErrors
  /\ errors' = errors + 1 /\ status' = TRUE /\ sema' = Signal
  /\ UNCHANGED <<pc, contextVars, place, requestVars, inPool, outOn, outQueue, decoderVars, inCb,
                 outCb>>

-----------------------------------------------------------------------------
Decode == \/ SendChunk \/ Sent \/ GetNothing \/ Wait \/ GetFormat \/ GetSlice
          \/ \E t \in Threads : Finish(t)
JDNext ==
  \/ \E t \in Threads : \/ Lookup(t) \/ Init(t) \/ InitFails(t) \/ Release(t) \/ Unlink(t)
                        \/ Destroy(t) \/ Configure(t) \/ \E u \in Threads : Acquire(t, u)
  \/ Decode \/ Eat \/ Announce \/ MakeSlice \/ InSignal \/ OutSignal \/ ErrorEvent

\* The thread that decodes, the decoder and MMAL's thread run on.
JDFair == /\ WF_jdvars(Decode) /\ WF_jdvars(Eat) /\ WF_jdvars(Announce) /\ WF_jdvars(MakeSlice)
          /\ WF_jdvars(InSignal) /\ WF_jdvars(OutSignal)
JDSpec == JDInit /\ [][JDNext]_jdvars
JDFairSpec == JDSpec /\ JDFair

(* Who holds the context, or is about to lock it, holds one that was not   *)
(* destroyed; and a wrapper is destroyed with the context it was made for. *)
ContextAlive ==
  /\ \A t \in Threads : pc[t] # "out" => has[t] \in alive
  /\ \A c \in Contexts : c \notin alive => wrappers[c] = 0

(* A picture was decoded when all its slices, and nothing of an earlier    *)
(* request, were copied in order; without an error the only reason to fail *)
(* is that the caller's buffer is too small.                               *)
DecodedWhole ==
  /\ result = "success" =>
       copied = [i \in 1 .. Slices |-> [request |-> request, slice |-> i]]
  /\ result = "error" /\ room => status \/ (announced /\ ~outOn)

(* Every call returns: it never waits for a signal nobody will give.       *)
DecodeReturns == []<>(place = "idle")
=============================================================================
