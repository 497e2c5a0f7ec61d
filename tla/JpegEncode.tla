----------------------------- MODULE JpegEncode -----------------------------
(***************************************************************************)
(* Encoding pictures with brcmjpeg (client/brcmjpeg/brcmjpeg.c) through    *)
(* the component wrapper (util/mmal_component_wrapper.c), request after    *)
(* request: the thread in brcmjpeg_encode, the callbacks of the wrapper on *)
(* MMAL's thread, and the encoder.                                         *)
(*                                                                         *)
(* The caller's output buffer has room for a number of chunks, each the    *)
(* size of an output header; an encoded picture is a number of pieces of   *)
(* that size.  A header is handed the next chunk when it is sent, 0 when   *)
(* there is no room left.  The picture goes in in slices.                  *)
(***************************************************************************)
EXTENDS Integers, Sequences, FiniteSets

CONSTANTS
  Outs,         \* number of output headers (3 in the code)
  Ins,          \* number of input headers
  Slices,       \* slices of a picture
  Pieces,       \* how many pieces a picture may be encoded to
  Rooms,        \* how many chunks an output buffer may have
  MaxRequests,  \* bound: requests
  MaxErrors     \* bound: error events of the encoder

JpegNumbers == {Outs, Ins, Slices} \subseteq Nat \ {0}
JpegSizes == Pieces \subseteq Nat \ {0} /\ Rooms \subseteq Nat
JpegBounds == {MaxRequests, MaxErrors} \subseteq Nat

VARIABLES
  place,      \* where brcmjpeg_encode is
  requests,   \* so far
  size, room, \* pieces the picture makes, chunks of the output buffer
  chunk,      \* outBuf: the next chunk
  sent,       \* slices
  got,        \* je->output_size: pieces received, by chunk they are in
  loop,       \* headers received
  result,     \* what the last call returned
  inOn, outOn,   \* is_enabled of the ports
  inPool, outPool,  \* headers in the pools
  outQueue,   \* output_queue[0], oldest first
  sema,       \* signals not waited for, 0 or more (counted up to Outs)
  status,     \* wrapper.status: has an error event come?
  encIn,      \* slices the encoder has
  encOut,     \* headers the encoder has: their chunks, oldest first
  encoded,    \* slices encoded
  made,       \* pieces made
  inCb, outCb,  \* what a callback has put but not signalled yet
  errors      \* so far

codecVars == <<inOn, outOn, inPool, outPool, outQueue>>
encVars == <<encIn, encOut, encoded, made>>
callVars == <<requests, size, room, chunk, sent, got, loop, result>>
jvars == <<place, callVars, codecVars, sema, status, encVars, inCb, outCb,
           errors>>

Piece(c, n, eos) == [chunk |-> c, piece |-> n, eos |-> eos]
Signal(n) == IF sema + n > Outs THEN Outs ELSE sema + n

\* brcmjpeg_init_encoder: the wrapper, and the output port enabled.
JInit ==
  /\ place = "idle"
  /\ requests = 0 /\ size = 0 /\ room = 0 /\ chunk = 1
  /\ sent = 0 /\ got = <<>> /\ loop = 0 /\ result = "none"
  /\ inOn = FALSE /\ outOn = TRUE
  /\ inPool = Ins /\ outPool = Outs /\ outQueue = <<>>
  /\ sema = 0 /\ status = FALSE
  /\ encIn = 0 /\ encOut = <<>> /\ encoded = 0 /\ made = 0
  /\ inCb = FALSE /\ outCb = FALSE /\ errors = 0

-----------------------------------------------------------------------------
(* brcmjpeg_encode                                                         *)

\* brcmjpeg_configure_encoder: the status is reset, the input port disabled
\* and enabled for the new picture, the output port if an error disabled it.
Configure(n, r) ==
  /\ place = "idle" /\ requests < MaxRequests /\ ~inCb
  /\ requests' = requests + 1
  /\ size' = n /\ room' = r /\ chunk' = 1 /\ sent' = 0 /\ got' = <<>>
  /\ loop' = 0 /\ result' = "none"
  /\ status' = FALSE
  /\ inOn' = TRUE /\ outOn' = TRUE
  /\ inPool' = Ins /\ encIn' = 0
  /\ encoded' = 0 /\ made' = 0
  /\ place' = "send"
  /\ UNCHANGED <<outPool, outQueue, sema, encOut, inCb, outCb, errors>>

\* Empty output headers are given the next chunks of the buffer and sent.
SendEmpty ==
  /\ place = "send" /\ outPool > 0 /\ ~status
  /\ outPool' = outPool - 1
  /\ encOut' = Append(encOut, IF chunk <= room THEN chunk ELSE 0)
  /\ chunk' = chunk + 1
  /\ UNCHANGED <<place, requests, size, room, sent, got, loop, result, inOn,
                 outOn, inPool, outQueue, sema, status, encIn, encoded, made,
                 inCb, outCb, errors>>

\* Then a slice, if one is left and there is a header for it.
SendSlice ==
  /\ place = "send" /\ (outPool = 0 \/ status)
  /\ IF sent < Slices /\ inPool > 0 /\ ~status
     THEN sent' = sent + 1 /\ inPool' = inPool - 1 /\ encIn' = encIn + 1
     ELSE UNCHANGED <<sent, inPool, encIn>>
  /\ place' = "get"
  /\ UNCHANGED <<requests, size, room, chunk, got, loop, result, inOn, outOn,
                 outPool, outQueue, sema, status, encOut, encoded, made, inCb,
                 outCb, errors>>

\* mmal_wrapper_buffer_get_full finds nothing: wait for a callback.
NothingFull ==
  /\ place = "get" /\ outQueue = <<>> /\ ~status
  /\ place' = "wait"
  /\ UNCHANGED <<callVars, codecVars, sema, status, encVars, inCb, outCb,
                 errors>>

Wait ==
  /\ place = "wait" /\ sema > 0
  /\ sema' = sema - 1
  /\ place' = "send"
  /\ UNCHANGED <<callVars, codecVars, status, encVars, inCb, outCb, errors>>

\* Mutant: a header without data is taken for the end of the room at once.
GetFullStrict ==
  /\ place = "get" /\ outQueue # <<>> /\ ~status
  /\ LET out == Head(outQueue)
         full == out.piece = 0 /\ ~out.eos
     IN /\ got' = IF out.piece > 0 THEN Append(got, out) ELSE got
        /\ loop' = IF loop < Outs THEN loop + 1 ELSE loop
        /\ place' = IF full THEN "error" ELSE IF out.eos THEN "flush" ELSE "send"
  /\ outQueue' = Tail(outQueue) /\ outPool' = outPool + 1
  /\ sema' = Signal(1)
  /\ UNCHANGED <<requests, size, room, chunk, sent, result, inOn, outOn,
                 inPool, status, encVars, inCb, outCb, errors>>

\* A full header: its data counts; no data and no end, after as many headers
\* as there are, means that the room is used up.  It is released, and the
\* release callback signals.
GetFull ==
  /\ place = "get" /\ outQueue # <<>> /\ ~status
  /\ LET out == Head(outQueue)
         full == loop + 1 >= Outs /\ out.piece = 0 /\ ~out.eos
     IN /\ got' = IF out.piece > 0 THEN Append(got, out) ELSE got
        /\ loop' = IF loop < Outs THEN loop + 1 ELSE loop
        /\ place' = IF full THEN "error" ELSE IF out.eos THEN "flush" ELSE "send"
  /\ outQueue' = Tail(outQueue) /\ outPool' = outPool + 1
  /\ sema' = Signal(1)
  /\ UNCHANGED <<requests, size, room, chunk, sent, result, inOn, outOn,
                 inPool, status, encVars, inCb, outCb, errors>>

\* An error event came: the wrapper's functions return its status.
GetError ==
  /\ place = "get" /\ status
  /\ place' = "error"
  /\ UNCHANGED <<callVars, codecVars, sema, status, encVars, inCb, outCb,
                 errors>>

\* Mutant: what the encoder gave back is not forgotten.
FlushNot ==
  /\ place = "flush" /\ ~outCb
  /\ place' = "idle" /\ result' = "success"
  /\ UNCHANGED <<requests, size, room, chunk, sent, got, loop, codecVars, sema,
                 status, encVars, inCb, outCb, errors>>

\* The picture is complete: the output port is flushed.  Its headers come
\* back through the callback, without data, to the queue of full headers.
Flush ==
  /\ place = "flush" /\ ~outCb
  /\ outQueue' = outQueue \o [i \in 1 .. Len(encOut) |-> Piece(0, 0, FALSE)]
  /\ encOut' = <<>>
  /\ sema' = Signal(Len(encOut))
  /\ place' = "idle" /\ result' = "success"
  /\ UNCHANGED <<requests, size, room, chunk, sent, got, loop, inOn, outOn,
                 inPool, outPool, status, encIn, encoded, made, inCb, outCb,
                 errors>>

\* Mutant: the output port is left as it is.
ErrorInOnly ==
  /\ place = "error" /\ ~inCb /\ ~outCb
  /\ inOn' = FALSE /\ inPool' = Ins /\ encIn' = 0
  /\ sema' = Signal(Outs)
  /\ place' = "idle" /\ result' = "error"
  /\ UNCHANGED <<requests, size, room, chunk, sent, got, loop, outOn, outPool,
                 outQueue, status, encOut, encoded, made, inCb, outCb, errors>>

\* The error path: both ports are disabled, which gives all headers back to
\* their pools.
Error ==
  /\ place = "error" /\ ~inCb /\ ~outCb
  /\ inOn' = FALSE /\ inPool' = Ins /\ encIn' = 0
  /\ outOn' = FALSE /\ outPool' = Outs /\ outQueue' = <<>> /\ encOut' = <<>>
  /\ sema' = Signal(Outs)
  /\ place' = "idle" /\ result' = "error"
  /\ UNCHANGED <<requests, size, room, chunk, sent, got, loop, status, encoded,
                 made, inCb, outCb, errors>>

-----------------------------------------------------------------------------
(* The encoder, and the wrapper's callbacks                                *)

\* A slice is encoded; mmal_wrapper_bh_in_cb releases its header ...
EncodeSlice ==
  /\ inOn /\ encIn > 0 /\ ~inCb
  /\ encIn' = encIn - 1 /\ encoded' = encoded + 1
  /\ inPool' = inPool + 1
  /\ inCb' = TRUE
  /\ UNCHANGED <<place, callVars, inOn, outOn, outPool, outQueue, sema, status,
                 encOut, made, outCb, errors>>

\* Mutant: the release callback only puts the header in the pool.
InSignalNot ==
  /\ inCb /\ inCb' = FALSE
  /\ UNCHANGED <<place, callVars, codecVars, sema, status, encVars, outCb,
                 errors>>

\* ... and the release callback signals.
InSignal ==
  /\ inCb /\ inCb' = FALSE
  /\ sema' = Signal(1)
  /\ UNCHANGED <<place, callVars, codecVars, status, encVars, outCb, errors>>

\* A piece fills the next header, the last one when all slices are encoded;
\* a header without room comes back as it is.
EncodePiece ==
  /\ outOn /\ encOut # <<>> /\ ~outCb /\ place # "idle" /\ made < size
  /\ \/ /\ Head(encOut) = 0
        /\ outQueue' = Append(outQueue, Piece(0, 0, FALSE))
        /\ encOut' = Tail(encOut) /\ UNCHANGED made
     \/ /\ Head(encOut) > 0 /\ encoded > 0
        /\ made + 1 = size => encoded = Slices
        /\ made' = made + 1
        /\ outQueue' = Append(outQueue, Piece(Head(encOut), made + 1, made + 1 = size))
        /\ encOut' = Tail(encOut)
  /\ outCb' = TRUE
  /\ UNCHANGED <<place, callVars, inOn, outOn, inPool, outPool, sema, status,
                 encIn, encoded, inCb, errors>>

\* mmal_wrapper_bh_out_cb has put the header in the queue and signals.
OutSignal ==
  /\ outCb /\ outCb' = FALSE
  /\ sema' = Signal(1)
  /\ UNCHANGED <<place, callVars, codecVars, status, encVars, inCb, errors>>

\* mmal_wrapper_control_cb: the status, then the signal.
ErrorEvent ==
  /\ errors < MaxErrors /\ place \notin {"idle", "error", "flush"}
  /\ errors' = errors + 1
  /\ status' = TRUE /\ sema' = Signal(1)
  /\ UNCHANGED <<place, callVars, codecVars, encVars, inCb, outCb>>

Codec == \/ SendEmpty \/ SendSlice \/ NothingFull \/ Wait \/ GetFull
         \/ GetError \/ Flush \/ Error
Firmware == EncodeSlice \/ InSignal \/ EncodePiece \/ OutSignal

JNext == \/ \E n \in Pieces, r \in Rooms : Configure(n, r)
         \/ Codec \/ Firmware \/ ErrorEvent

JSpec == JInit /\ [][JNext]_jvars
\* The calling thread and MMAL's threads run on, and the encoder encodes what
\* it is given.
JFair == /\ WF_jvars(Codec) /\ WF_jvars(EncodeSlice)
         /\ WF_jvars(InSignal) /\ WF_jvars(EncodePiece) /\ WF_jvars(OutSignal)
JFairSpec == JSpec /\ JFair

-----------------------------------------------------------------------------
(* Properties                                                              *)

\* A picture that was encoded lies in the caller's buffer in one piece and in
\* order, whatever headers were left over from the request before; and only
\* an error event or a buffer that is too small makes a request fail.
EncodedWhole ==
  /\ result = "success" =>
       /\ Len(got) = size
       /\ \A i \in 1 .. size : got[i].chunk = i /\ got[i].piece = i
  /\ (result = "error" /\ ~status) => room < size

\* Every request comes to an end: the thread never waits for a signal that
\* was not or will not be given.
EncodeReturns == []<>(place = "idle")
=============================================================================
